---- MODULE Spec2Model ----
(***************************************************************************)
(* The vibe-reviewer tutorial evaluation pipeline of vibe-blog             *)
(* (backend/vibe_reviewer): the streaming evaluation endpoint, the         *)
(* generation-backed components (ContentAnalyzer, DepthChecker,            *)
(* QualityReviewer, ReadabilityChecker, Improver), the SearchAgent and     *)
(* the incremental re-run of a tutorial.                                   *)
(*                                                                         *)
(* Each subsystem has its own specification over its own group of          *)
(* variables; the other groups stay at their initial values.               *)
(***************************************************************************)
EXTENDS Integers, Sequences, FiniteSets, TLC

VARIABLES
    \* ---- evaluate_tutorial_stream (api/routes.py) ----
    queue,              \* the run's Queue(): events put and not yet got
    evaluation_queues,  \* _evaluation_queues: the task ids registered
    workerPc,           \* run_evaluation's position
    emitted,            \* number of on_progress calls made by the run
    genPc,              \* generate()'s position
    delivered,          \* SSE event names yielded to the subscriber, in order
    connected,          \* the subscriber has not closed the response
    now,                \* time.time(), in seconds since the request
    last_heartbeat,     \* generate()'s last_heartbeat
    sent,               \* history: the events put on the queue, in order
    last_progress,      \* history: time.time() when a message was last yielded
    \* ---- one invocation of a generation-backed component ----
    op,                 \* the component invoked, "idle" between invocations
    callIn,             \* the invocation's arguments
    callResp,           \* what llm.chat did in this invocation
    llm_calls,          \* the llm.chat calls the invocation made, in order
    callOut,            \* [raised, value]: what the invocation gave its caller
    \* ---- SearchAgent (pipeline/search_agent.py) ----
    searchPc,           \* position in search_multi_round / search
    summary,            \* the ContentSummary searched for
    max_rounds,         \* search_multi_round's max_rounds
    search_service,     \* what self.search_service is
    round,              \* the round search() runs for (0: called on its own)
    queries,            \* search()'s queries
    max_results_per_query, \* search()'s max_results_per_query
    pending,            \* queries of the current search() call not yet issued
    seen_urls,          \* search()'s seen_urls
    round_results,      \* search()'s all_results
    all_results,        \* search_multi_round's all_results
    calls,              \* log of the search-capability calls: [round, query, outcome]
    \* ---- re-run of a tutorial (ReviewerService, ChapterModel) ----
    runPc,              \* position of the run
    texts,              \* the chapter files' current raw text, by position
    chapters,           \* reviewer_chapters rows, by position
    prior,              \* the rows as they were when the current run started
    cursor,             \* position of the next chapter the run handles
    skipped,            \* positions the current run skipped
    gen_calls,          \* generation calls of the current run, by position
    search_calls,       \* search calls of the current run, by position
    runs,               \* number of runs started
    tutorial,           \* the reviewer_tutorials row: status, error_message
    repo,               \* whether the local clone of the repository exists
    acquired,           \* what clone_or_pull did in the last run started
    \* ---- ReferenceManager, ScoreAggregator (pipeline/) ----
    fn,                 \* the method called, "idle" between calls
    fnIn,               \* its arguments
    fnOut,              \* what it returned
    \* ---- the streaming runs of the process (api/routes.py) ----
    clock,              \* int(time.time()) of the process
    requests,           \* the evaluate-stream requests made, in order
    registry            \* _evaluation_queues: task id -> the Queue of a request

streamVars == <<queue, evaluation_queues, workerPc, emitted, genPc, delivered,
                connected, now, last_heartbeat, sent, last_progress>>
callVars   == <<op, callIn, callResp, callOut, llm_calls>>
searchVars == <<searchPc, summary, max_rounds, search_service, round, queries,
                max_results_per_query, pending, seen_urls, round_results,
                all_results, calls>>
rerunVars  == <<runPc, texts, chapters, prior, cursor, skipped, gen_calls,
                search_calls, runs, tutorial, repo, acquired>>
pipeVars   == <<fn, fnIn, fnOut>>
fleetVars  == <<clock, requests, registry>>
vars == <<streamVars, callVars, searchVars, rerunVars, pipeVars, fleetVars>>

----------------------------------------------------------------------------
(* Generic helpers *)

Last(s) == s[Len(s)]

Take(s, n) == SubSeq(s, 1, IF n < Len(s) THEN n ELSE Len(s))

Range(s) == {s[i] : i \in DOMAIN s}

\* Sequences over S of length at most n
SeqUpTo(S, n) == UNION {[1..k -> S] : k \in 0..n}

----------------------------------------------------------------------------
(* Initial values of each group of variables *)

StreamIdle ==
    /\ queue = <<>>
    /\ evaluation_queues = {}
    /\ workerPc = "finished"
    /\ emitted = 0
    /\ genPc = "closed"
    /\ delivered = <<>>
    /\ connected = FALSE
    /\ now = 0
    /\ last_heartbeat = 0
    /\ sent = <<>>
    /\ last_progress = 0

CallIdle ==
    /\ op = "idle"
    /\ callIn = <<>>
    /\ callResp = <<>>
    /\ callOut = <<>>
    /\ llm_calls = <<>>

SearchIdle ==
    /\ searchPc = "idle"
    /\ summary = <<>>
    /\ max_rounds = 0
    /\ search_service = "none"
    /\ round = 0
    /\ queries = <<>>
    /\ max_results_per_query = 0
    /\ pending = <<>>
    /\ seen_urls = {}
    /\ round_results = <<>>
    /\ all_results = <<>>
    /\ calls = <<>>

RerunIdle ==
    /\ runPc = "idle"
    /\ texts = <<>>
    /\ chapters = <<>>
    /\ prior = <<>>
    /\ cursor = 0
    /\ skipped = {}
    /\ gen_calls = <<>>
    /\ search_calls = <<>>
    /\ runs = 0
    /\ tutorial = [status |-> "pending", error_message |-> "none"]
    /\ repo = "absent"
    /\ acquired = [op |-> "none"]

PipeIdle ==
    /\ fn = "idle"
    /\ fnIn = <<>>
    /\ fnOut = <<>>

FleetIdle ==
    /\ clock = 0
    /\ requests = <<>>
    /\ registry = <<>>

----------------------------------------------------------------------------
(* evaluate_tutorial_stream: one streaming run.  A background thread runs   *)
(* run_evaluation, which puts events on the run's queue; the response       *)
(* generator generate() forwards them to the subscriber as SSE events.      *)

\* Bounds of the model
MaxProgress == 2    \* on_progress calls made by one run
MaxTime == 12       \* seconds of time.time() followed

\* "if time.time() - last_heartbeat > 10"
HeartbeatInterval == 10
\* "queue.get(timeout=1)"
QueueGetTimeout == 1

\* task_id = f"eval_{tutorial_id}_{int(time.time())}" of the run
task_id == "eval_1_0"

\* The types of the events the run reports through on_progress
ProgressTypes == {"progress", "phase"}
\* "if event_type in ('complete', 'error'): break"
TerminalTypes == {"complete", "error"}

\* evaluate_tutorial_stream up to "return Response(...)": the queue is
\* created and registered, the thread is started, generate() is not yet run.
StreamInit ==
    /\ queue = <<>>
    /\ evaluation_queues = {task_id}
    /\ workerPc = "running"
    /\ emitted = 0
    /\ genPc = "start"
    /\ delivered = <<>>
    /\ connected = TRUE
    /\ now = 0
    /\ last_heartbeat = 0
    /\ sent = <<>>
    /\ last_progress = 0

\* a step of the streaming run leaves the other subsystems alone
StreamFrame == UNCHANGED <<callVars, searchVars, rerunVars, pipeVars, fleetVars>>

\* the callback with a queue of one place: put waits while the queue is full
on_progress_bounded(event) ==
    Len(queue) < 1 /\ queue' = Append(queue, event) /\ sent' = Append(sent, event)

\* on_progress(event): queue.put(event)
on_progress(event) == queue' = Append(queue, event) /\ sent' = Append(sent, event)

\* evaluate_tutorial_sync reports progress through the callback
evaluate_tutorial_sync_progress ==
    /\ workerPc = "running"
    /\ emitted < MaxProgress
    /\ \E t \in ProgressTypes : on_progress([type |-> t])
    /\ emitted' = emitted + 1
    /\ UNCHANGED <<evaluation_queues, workerPc, genPc, delivered, connected,
                   now, last_heartbeat>>
    /\ UNCHANGED last_progress
    /\ StreamFrame

\* evaluate_tutorial_sync returns: queue.put({'type': 'complete', ...})
run_evaluation_complete ==
    /\ workerPc = "running"
    /\ queue' = Append(queue, [type |-> "complete"])
    /\ workerPc' = "finally"
    /\ UNCHANGED <<evaluation_queues, emitted, genPc, delivered, connected,
                   now, last_heartbeat>>
    /\ sent' = Append(sent, [type |-> "complete"])
    /\ UNCHANGED last_progress
    /\ StreamFrame

\* A plausible slip: the exception is logged and no event is put
run_evaluation_error_swallowed ==
    /\ workerPc = "running"
    /\ workerPc' = "finally"
    /\ UNCHANGED <<queue, evaluation_queues, emitted, genPc, delivered,
                   connected, now, last_heartbeat>>
    /\ UNCHANGED <<sent, last_progress>>
    /\ StreamFrame

\* evaluate_tutorial_sync raises: queue.put({'type': 'error', ...})
run_evaluation_error ==
    /\ workerPc = "running"
    /\ queue' = Append(queue, [type |-> "error"])
    /\ workerPc' = "finally"
    /\ UNCHANGED <<evaluation_queues, emitted, genPc, delivered, connected,
                   now, last_heartbeat>>
    /\ sent' = Append(sent, [type |-> "error"])
    /\ UNCHANGED last_progress
    /\ StreamFrame

\* finally: del _evaluation_queues[task_id] if it is there
run_evaluation_finally ==
    /\ workerPc = "finally"
    /\ evaluation_queues' = evaluation_queues \ {task_id}
    /\ workerPc' = "finished"
    /\ UNCHANGED <<queue, emitted, genPc, delivered, connected, now,
                   last_heartbeat>>
    /\ UNCHANGED <<sent, last_progress>>
    /\ StreamFrame

run_evaluation ==
    \/ evaluate_tutorial_sync_progress
    \/ run_evaluation_complete
    \/ run_evaluation_error
    \/ run_evaluation_finally

\* generate(): yield "event: connected"
generate_connected ==
    /\ genPc = "start"
    /\ connected
    /\ delivered' = Append(delivered, "connected")
    /\ genPc' = "connected"
    /\ UNCHANGED <<queue, evaluation_queues, workerPc, emitted, connected, now,
                   last_heartbeat>>
    /\ UNCHANGED <<sent, last_progress>>
    /\ StreamFrame

\* resumed after the first yield: last_heartbeat = time.time()
generate_enter_loop ==
    /\ genPc = "connected"
    /\ connected
    /\ last_heartbeat' = now
    /\ genPc' = "get"
    /\ UNCHANGED <<queue, evaluation_queues, workerPc, emitted, delivered,
                   connected, now>>
    /\ UNCHANGED <<sent, last_progress>>
    /\ StreamFrame

\* the messages taken from the newest end of the queue
generate_message_lifo ==
    /\ genPc = "get"
    /\ connected
    /\ queue # <<>>
    /\ LET message == Last(queue)
           event_type == message.type
       IN  /\ queue' = SubSeq(queue, 1, Len(queue) - 1)
           /\ delivered' = Append(delivered, event_type)
           /\ genPc' = IF event_type \in TerminalTypes THEN "closed"
                       ELSE "heartbeat"
    /\ UNCHANGED <<evaluation_queues, workerPc, emitted, connected, now,
                   last_heartbeat>>
    /\ last_progress' = now
    /\ UNCHANGED sent
    /\ StreamFrame

\* queue.get returns a message: it is yielded under its type, and a terminal
\* type ends the loop
generate_message ==
    /\ genPc = "get"
    /\ connected
    /\ queue # <<>>
    /\ LET message == Head(queue)
           event_type == message.type
       IN  /\ queue' = Tail(queue)
           /\ delivered' = Append(delivered, event_type)
           /\ genPc' = IF event_type \in TerminalTypes THEN "closed"
                       ELSE "heartbeat"
    /\ UNCHANGED <<evaluation_queues, workerPc, emitted, connected, now,
                   last_heartbeat>>
    /\ last_progress' = now
    /\ UNCHANGED sent
    /\ StreamFrame

\* queue.get(timeout=1) raises Empty after the timeout: message = None
generate_empty ==
    /\ genPc = "get"
    /\ connected
    /\ queue = <<>>
    /\ now + QueueGetTimeout <= MaxTime
    /\ now' = now + QueueGetTimeout
    /\ genPc' = "heartbeat"
    /\ UNCHANGED <<queue, evaluation_queues, workerPc, emitted, delivered,
                   connected, last_heartbeat>>
    /\ UNCHANGED <<sent, last_progress>>
    /\ StreamFrame

\* the heartbeat check that ends an iteration of the loop
generate_heartbeat ==
    /\ genPc = "heartbeat"
    /\ connected
    /\ IF now - last_heartbeat > HeartbeatInterval
       THEN /\ delivered' = Append(delivered, "heartbeat")
            /\ last_heartbeat' = now
       ELSE UNCHANGED <<delivered, last_heartbeat>>
    /\ genPc' = "get"
    /\ UNCHANGED <<queue, evaluation_queues, workerPc, emitted, connected, now>>
    /\ UNCHANGED <<sent, last_progress>>
    /\ StreamFrame

\* "except GeneratorExit: break": the response is closed under the generator
generate_exit ==
    /\ ~connected
    /\ genPc # "closed"
    /\ genPc' = "closed"
    /\ UNCHANGED <<queue, evaluation_queues, workerPc, emitted, delivered,
                   connected, now, last_heartbeat>>
    /\ UNCHANGED <<sent, last_progress>>
    /\ StreamFrame

generate ==
    \/ generate_connected
    \/ generate_enter_loop
    \/ generate_message
    \/ generate_empty
    \/ generate_heartbeat
    \/ generate_exit

\* the subscriber closes the connection
subscriber_disconnect ==
    /\ connected
    /\ genPc # "closed"
    /\ connected' = FALSE
    /\ UNCHANGED <<queue, evaluation_queues, workerPc, emitted, genPc,
                   delivered, now, last_heartbeat>>
    /\ UNCHANGED <<sent, last_progress>>
    /\ StreamFrame

\* time passes
Tick ==
    /\ now < MaxTime
    /\ genPc # "closed" \/ workerPc # "finished"
    /\ now' = now + 1
    /\ UNCHANGED <<queue, evaluation_queues, workerPc, emitted, genPc,
                   delivered, connected, last_heartbeat>>
    /\ UNCHANGED <<sent, last_progress>>
    /\ StreamFrame

InitStream == StreamInit /\ CallIdle /\ SearchIdle /\ RerunIdle /\ PipeIdle /\ FleetIdle

NextStream ==
    \/ evaluate_tutorial_sync_progress
    \/ run_evaluation_complete
    \/ run_evaluation_error
    \/ run_evaluation_finally
    \/ generate_connected
    \/ generate_enter_loop
    \/ generate_message
    \/ generate_empty
    \/ generate_heartbeat
    \/ generate_exit
    \/ subscriber_disconnect
    \/ Tick

SpecStream == InitStream /\ [][NextStream]_vars

\* The thread run_evaluation runs on is scheduled until it ends, and the
\* server keeps iterating generate() while the response is open.
FairSpecStream ==
    /\ SpecStream
    /\ WF_vars(run_evaluation)
    /\ WF_vars(generate)

TerminalCount == Cardinality({i \in DOMAIN delivered : delivered[i] \in TerminalTypes})

StreamEnded == genPc = "closed"

----------------------------------------------------------------------------
(* The generation capability's response, and the JSON extraction every      *)
(* _parse_response does on it.                                              *)
(*                                                                          *)
(* A response text is a sequence of tokens separated by white space:        *)
(*   fence_json  the marker ```json                                         *)
(*   fence       the marker ```                                             *)
(*   json        a complete JSON text (an object, an array or null) whose   *)
(*               decoded value is the token's v                             *)
(*   prose       any other text: no marker in it, and neither it nor a      *)
(*               part of it cut at its end is a JSON text                   *)

\* Bounds of the model
MaxRespLen == 3     \* tokens in a response text
MaxItems == 2       \* entries of a list inside a response or a result

TokenKinds == {"fence_json", "fence", "prose", "json"}

Shapes == UNION {[1..k -> TokenKinds] : k \in 1..MaxRespLen}

\* the shapes every payload is tried in: bare, fenced with ```json, fenced
\* with ```, and embedded in prose
CoreShapes == {<<"json">>, <<"fence_json", "json", "fence">>,
               <<"fence", "json", "fence">>, <<"prose", "json", "prose">>}

Tokens(shape, v) ==
    [i \in DOMAIN shape |->
        IF shape[i] = "json" THEN [k |-> "json", v |-> v] ELSE [k |-> shape[i]]]

\* what llm.chat does: raises, returns None or '', or returns a text
RaiseResp == [kind |-> "raise"]
EmptyResp == [kind |-> "empty"]
TextResp(shape, v) == [kind |-> "text", toks |-> Tokens(shape, v)]

\* values of a JSON field: absent from the object, null, a string that is no
\* number, a string that is a number, a number
JAbsent == [t |-> "absent", n |-> 0]
JNull == [t |-> "null", n |-> 0]
JStr == [t |-> "str", n |-> 0]
JNumStr(n) == [t |-> "numstr", n |-> n]
JInt(n) == [t |-> "int", n |-> n]

\* values of a JSON field that is meant to be a list
LAbsent == [t |-> "absent", items |-> <<>>]
LNull == [t |-> "null", items |-> <<>>]
LStr == [t |-> "str", items |-> <<>>]
LList(items) == [t |-> "list", items |-> items]

\* decoded JSON texts that are no object
DataNull == [t |-> "null"]
DataArr == [t |-> "arr"]
DataObj(f) == [t |-> "obj", f |-> f]

\* dict.get(key, default): the default only when the key is absent
Get(d, key, default) == IF d[key].t = "absent" THEN default ELSE d[key]

\* the result of evaluating an expression: a value, or an exception raised
Returned(v) == [exc |-> "none", value |-> v]
Raised(e) == [exc |-> e, value |-> <<>>]

\* int(x) of a JSON value
py_int(x) ==
    CASE x.t \in {"int", "numstr"} -> Returned(x.n)
      [] x.t = "str" -> Raised("ValueError")
      [] OTHER -> Raised("TypeError")

\* the exception of "for item in <field>: item.get(...)", "none" if none
IterExc(lf) ==
    CASE lf.t \in {"absent"} -> "none"
      [] lf.t = "null" -> "TypeError"
      [] lf.t = "str" -> "AttributeError"
      [] OTHER -> IF \E i \in DOMAIN lf.items : lf.items[i].t # "obj"
                  THEN "AttributeError" ELSE "none"

\* index of the first token at or after from whose kind is in K, 0 if none
FirstIndex(toks, K, from) ==
    LET I == {i \in DOMAIN toks : i >= from /\ toks[i].k \in K}
    IN  IF I = {} THEN 0 ELSE CHOOSE i \in I : \A j \in I : i <= j

\* s[:-1] of a text in tokens: the last token loses its last character, and
\* what is left of it is no JSON text
DropLastChar(toks) ==
    IF toks = <<>> THEN <<>>
    ELSE [toks EXCEPT ![Len(toks)] = [k |-> "prose"]]

\* response[start:end] with start just after the marker at index f and
\* end = response.find('```', start), which is -1 when there is no marker
Fenced(toks, f) ==
    LET e == FirstIndex(toks, {"fence", "fence_json"}, f + 1)
    IN  IF e # 0 THEN SubSeq(toks, f + 1, e - 1)
        ELSE DropLastChar(SubSeq(toks, f + 1, Len(toks)))

\* "if '```json' in response: ... elif '```' in response: ..."
ExtractJSON(toks) ==
    LET fj == FirstIndex(toks, {"fence_json"}, 1)
        f == FirstIndex(toks, {"fence"}, 1)
    IN  IF fj # 0 THEN Fenced(toks, fj)
        ELSE IF f # 0 THEN Fenced(toks, f)
        ELSE toks

\* json.loads(response): the value of the text if it is one JSON text
json_loads(toks) ==
    IF Len(toks) = 1 /\ toks[1].k = "json" THEN Returned(toks[1].v)
    ELSE Raised("JSONDecodeError")

\* llm.chat(...): "empty" is a response for which "not response" holds
llm_chat(resp) ==
    IF resp.kind = "raise" THEN Raised("LLMError") ELSE Returned(resp)

----------------------------------------------------------------------------
(* The three evaluators: DepthChecker, QualityReviewer, ReadabilityChecker  *)

\* the score every default result carries, and the default of every score
\* field of a response: "score=70", "data.get('score', 70)"
DefaultScore == 70

\* the place of the i-th entry of a list
Loc(i) == <<"p1", "p2", "p3", "p4", "p5", "p6", "p7", "p8", "p9">>[i]

\* a string field of a response: "absent" stands for the missing key
GetStr(x, default) == IF x = "absent" THEN default ELSE x

\* ReadabilityLevel (schemas): NORMAL is the member the code names
ReadabilityLevel == {"easy", "normal", "hard"}

\* an entry of a list of a response: an object, or a string where an
\* object is expected
JItem(priority, severity, location) ==
    [t |-> "obj", priority |-> priority, severity |-> severity,
     location |-> location]
JBadItem == [t |-> "str", priority |-> JAbsent, severity |-> "absent",
             location |-> "absent"]

VaguePoint(location, issue, suggestion) ==
    [location |-> location, issue |-> issue, suggestion |-> suggestion]

ContentIssue(issue_type, severity, location, description, suggestion) ==
    [issue_type |-> issue_type, severity |-> severity, location |-> location,
     description |-> description, suggestion |-> suggestion,
     reference |-> "None"]

\* DepthChecker._default_result
DepthChecker_default_result ==
    [type |-> "DepthCheckResult", score |-> DefaultScore,
     is_detailed_enough |-> TRUE, vague_points |-> <<>>,
     summary |-> "depth check done"]

\* DepthChecker._parse_response
DepthChecker_parse_response(response) ==
    LET dec == json_loads(ExtractJSON(response))
    IN  IF dec.exc = "JSONDecodeError"
        THEN Returned(DepthChecker_default_result)
        ELSE IF dec.value.t # "obj" THEN Raised("AttributeError")
        ELSE LET data == dec.value.f
                 vps == Get(data, "vague_points", LList(<<>>))
                 score == py_int(Get(data, "score", JInt(DefaultScore)))
             IN  IF IterExc(vps) # "none" THEN Raised(IterExc(vps))
                 ELSE IF score.exc # "none" THEN score
                 ELSE Returned(
                     [type |-> "DepthCheckResult",
                      score |-> score.value,
                      is_detailed_enough |-> data.is_detailed_enough # "false",
                      vague_points |->
                          [i \in DOMAIN vps.items |->
                              VaguePoint(GetStr(vps.items[i].location, ""), "", "")],
                      summary |-> GetStr(data.summary, "")])

\* DepthChecker.check with "except json.JSONDecodeError" for "except Exception"
DepthChecker_check_narrow_except(resp) ==
    LET response == llm_chat(resp)
    IN  IF response.exc # "none" THEN response
        ELSE IF response.value.kind = "empty"
        THEN Returned(DepthChecker_default_result)
        ELSE DepthChecker_parse_response(response.value.toks)

\* DepthChecker.check
DepthChecker_check(resp) ==
    LET response == llm_chat(resp)
    IN  IF response.exc # "none" THEN Returned(DepthChecker_default_result)
        ELSE IF response.value.kind = "empty"
        THEN Returned(DepthChecker_default_result)
        ELSE LET r == DepthChecker_parse_response(response.value.toks)
             IN  IF r.exc # "none" THEN Returned(DepthChecker_default_result)
                 ELSE r

\* the issues of a response, as QualityReviewer and ReadabilityChecker build them
ParseIssues(lf) ==
    [i \in DOMAIN lf.items |->
        ContentIssue("unknown", GetStr(lf.items[i].severity, "medium"),
                     GetStr(lf.items[i].location, ""), "", "")]

\* a default that leaves the sub-scores at the zero of the result type
QualityReviewer_default_result_zero_subscores ==
    [type |-> "QualityReviewResult", score |-> DefaultScore, approved |-> TRUE,
     issues |-> <<>>, summary |-> "quality review done",
     logic_score |-> 0, accuracy_score |-> 0, completeness_score |-> 0]

\* QualityReviewer._default_result
QualityReviewer_default_result ==
    [type |-> "QualityReviewResult", score |-> DefaultScore, approved |-> TRUE,
     issues |-> <<>>, summary |-> "quality review done",
     logic_score |-> DefaultScore, accuracy_score |-> DefaultScore,
     completeness_score |-> DefaultScore]

\* the first exception of a sequence of evaluations, "none" if none
FirstExc(rs) ==
    LET I == {i \in DOMAIN rs : rs[i].exc # "none"}
    IN  IF I = {} THEN "none"
        ELSE rs[CHOOSE i \in I : \A j \in I : i <= j].exc

\* QualityReviewer._parse_response
QualityReviewer_parse_response(response) ==
    LET dec == json_loads(ExtractJSON(response))
    IN  IF dec.exc = "JSONDecodeError"
        THEN Returned(QualityReviewer_default_result)
        ELSE IF dec.value.t # "obj" THEN Raised("AttributeError")
        ELSE LET data == dec.value.f
                 issues == Get(data, "issues", LList(<<>>))
                 score == py_int(Get(data, "score", JInt(DefaultScore)))
                 logic == py_int(Get(data, "logic_score", JInt(DefaultScore)))
                 accuracy == py_int(Get(data, "accuracy_score", JInt(DefaultScore)))
                 completeness ==
                     py_int(Get(data, "completeness_score", JInt(DefaultScore)))
                 exc == FirstExc(<<score, logic, accuracy, completeness>>)
             IN  IF IterExc(issues) # "none" THEN Raised(IterExc(issues))
                 ELSE IF exc # "none" THEN Raised(exc)
                 ELSE Returned(
                     [type |-> "QualityReviewResult",
                      score |-> score.value,
                      approved |-> data.approved # "false",
                      issues |-> ParseIssues(issues),
                      summary |-> GetStr(data.summary, ""),
                      logic_score |-> logic.value,
                      accuracy_score |-> accuracy.value,
                      completeness_score |-> completeness.value])

\* QualityReviewer.review
QualityReviewer_review(resp) ==
    LET response == llm_chat(resp)
    IN  IF response.exc # "none" THEN Returned(QualityReviewer_default_result)
        ELSE IF response.value.kind = "empty"
        THEN Returned(QualityReviewer_default_result)
        ELSE LET r == QualityReviewer_parse_response(response.value.toks)
             IN  IF r.exc # "none" THEN Returned(QualityReviewer_default_result)
                 ELSE r

\* ReadabilityChecker._default_result
ReadabilityChecker_default_result ==
    [type |-> "ReadabilityResult", score |-> DefaultScore, level |-> "normal",
     issues |-> <<>>, summary |-> "readability check done",
     vocabulary_score |-> DefaultScore, syntax_score |-> DefaultScore,
     discourse_score |-> DefaultScore, surface_score |-> DefaultScore]

\* ReadabilityChecker._parse_response
ReadabilityChecker_parse_response(response) ==
    LET dec == json_loads(ExtractJSON(response))
    IN  IF dec.exc = "JSONDecodeError"
        THEN Returned(ReadabilityChecker_default_result)
        ELSE IF dec.value.t # "obj" THEN Raised("AttributeError")
        ELSE LET data == dec.value.f
                 level_str == GetStr(data.level, "normal")
                 level == IF level_str \in ReadabilityLevel THEN level_str
                          ELSE "normal"
                 issues == Get(data, "issues", LList(<<>>))
                 score == py_int(Get(data, "score", JInt(DefaultScore)))
                 vocabulary ==
                     py_int(Get(data, "vocabulary_score", JInt(DefaultScore)))
                 syntax == py_int(Get(data, "syntax_score", JInt(DefaultScore)))
                 discourse ==
                     py_int(Get(data, "discourse_score", JInt(DefaultScore)))
                 surface == py_int(Get(data, "surface_score", JInt(DefaultScore)))
                 exc == FirstExc(<<score, vocabulary, syntax, discourse, surface>>)
             IN  IF IterExc(issues) # "none" THEN Raised(IterExc(issues))
                 ELSE IF exc # "none" THEN Raised(exc)
                 ELSE Returned(
                     [type |-> "ReadabilityResult",
                      score |-> score.value,
                      level |-> level,
                      issues |-> ParseIssues(issues),
                      summary |-> GetStr(data.summary, ""),
                      vocabulary_score |-> vocabulary.value,
                      syntax_score |-> syntax.value,
                      discourse_score |-> discourse.value,
                      surface_score |-> surface.value])

\* ReadabilityChecker.check
ReadabilityChecker_check(resp) ==
    LET response == llm_chat(resp)
    IN  IF response.exc # "none" THEN Returned(ReadabilityChecker_default_result)
        ELSE IF response.value.kind = "empty"
        THEN Returned(ReadabilityChecker_default_result)
        ELSE LET r == ReadabilityChecker_parse_response(response.value.toks)
             IN  IF r.exc # "none"
                 THEN Returned(ReadabilityChecker_default_result)
                 ELSE r

----------------------------------------------------------------------------
(* ContentAnalyzer *)

\* Bound of the model
MaxContentLen == 11     \* characters of a chapter text

\* "content[:500]", ".split()[:10]", "words[:5]"
ContentPrefixLen == 500
MaxWords == 10
QueryWords == 5

\* ContentType: the keys of WEIGHT_CONFIGS
ContentType == {"technical_tutorial", "science_popular", "documentation",
                "news", "opinion", "unknown"}

\* a text is a sequence of characters; " " is white space
IsSpace(c) == c = " "

\* str.split(): the maximal runs of characters that are not white space
RECURSIVE split(_)
split(text) ==
    IF text = <<>> THEN <<>>
    ELSE IF IsSpace(text[1]) THEN split(Tail(text))
    ELSE LET stops == {i \in DOMAIN text : IsSpace(text[i])}
             n == IF stops = {} THEN Len(text)
                  ELSE (CHOOSE i \in stops : \A j \in stops : i <= j) - 1
         IN  <<SubSeq(text, 1, n)>> \o split(SubSeq(text, n + 1, Len(text)))

\* ' '.join(words)
RECURSIVE join(_)
join(words) ==
    IF words = <<>> THEN <<>>
    ELSE IF Len(words) = 1 THEN words[1]
    ELSE words[1] \o <<" ">> \o join(Tail(words))

ContentSummary(topic, content_type, key_terms, search_queries) ==
    [type |-> "ContentSummary", topic |-> topic, content_type |-> content_type,
     core_points |-> <<>>, key_terms |-> key_terms, fact_claims |-> <<>>,
     search_queries |-> search_queries]

\* ContentAnalyzer._default_summary
ContentAnalyzer_default_summary(content) ==
    LET words == Take(split(Take(content, ContentPrefixLen)), MaxWords)
    IN  ContentSummary("", "unknown", <<>>,
                       IF words # <<>> THEN <<join(Take(words, QueryWords))>>
                       ELSE <<>>)

\* a list field of strings of a response, [] when the key is missing
GetList(x) == IF x.t = "absent" THEN <<>> ELSE x.items

\* ContentAnalyzer._parse_response
ContentAnalyzer_parse_response(response) ==
    LET dec == json_loads(ExtractJSON(response))
    IN  IF dec.exc = "JSONDecodeError"
        THEN Returned(ContentAnalyzer_default_summary(<<>>))
        ELSE IF dec.value.t # "obj" THEN Raised("AttributeError")
        ELSE LET data == dec.value.f
                 content_type_str == GetStr(data.content_type, "unknown")
             IN  Returned(
                     [ContentSummary(
                         GetStr(data.topic, ""),
                         IF content_type_str \in ContentType
                         THEN content_type_str ELSE "unknown",
                         GetList(data.key_terms),
                         GetList(data.search_queries))
                      EXCEPT !.core_points = GetList(data.core_points)])

\* ContentAnalyzer.analyze
ContentAnalyzer_analyze(content, resp) ==
    LET response == llm_chat(resp)
    IN  IF response.exc # "none"
        THEN Returned(ContentAnalyzer_default_summary(content))
        ELSE IF response.value.kind = "empty"
        THEN Returned(ContentAnalyzer_default_summary(content))
        ELSE LET r == ContentAnalyzer_parse_response(response.value.toks)
             IN  IF r.exc # "none"
                 THEN Returned(ContentAnalyzer_default_summary(content))
                 ELSE r

----------------------------------------------------------------------------
(* Improver *)

\* "priority=int(fb.get('priority', 3))", and the priority of a vague point
DefaultPriority == 3
VaguePointPriority == 3

ActionableFeedback(priority, location, issue_type, problem, action, reference, effort) ==
    [priority |-> priority, location |-> location, issue_type |-> issue_type,
     problem |-> problem, action |-> action, reference |-> reference,
     estimated_effort |-> effort]

\* x put after the entries of the sorted list whose priority is at most x's
insert_by_priority(sorted, x) ==
    LET before == {i \in DOMAIN sorted : sorted[i].priority <= x.priority}
        n == Cardinality(before)
    IN  SubSeq(sorted, 1, n) \o <<x>> \o SubSeq(sorted, n + 1, Len(sorted))

\* x put before the entries whose priority is at least x's: sorted, not stable
insert_by_priority_unstable(sorted, x) ==
    LET before == {i \in DOMAIN sorted : sorted[i].priority < x.priority}
        n == Cardinality(before)
    IN  SubSeq(sorted, 1, n) \o <<x>> \o SubSeq(sorted, n + 1, Len(sorted))

RECURSIVE sort_unstable(_)
sort_unstable(list) ==
    IF list = <<>> THEN <<>>
    ELSE insert_by_priority_unstable(
             sort_unstable(SubSeq(list, 1, Len(list) - 1)), Last(list))

\* feedback_list.sort(key=lambda x: x.priority): list.sort is stable
RECURSIVE sort_by_priority(_)
sort_by_priority(list) ==
    IF list = <<>> THEN <<>>
    ELSE insert_by_priority(
             sort_by_priority(SubSeq(list, 1, Len(list) - 1)), Last(list))

\* the feedback of a response in the order of its 'feedback' list, before
\* the sort; the first entry that is no object or whose priority is no
\* integer raises
feedback_of(fl) ==
    LET pr == [i \in DOMAIN fl.items |->
                  py_int(Get(fl.items[i], "priority", JInt(DefaultPriority)))]
    IN  IF IterExc(fl) # "none" THEN Raised(IterExc(fl))
        ELSE IF FirstExc(pr) # "none" THEN Raised(FirstExc(pr))
        ELSE Returned(
                 [i \in DOMAIN fl.items |->
                     ActionableFeedback(pr[i].value,
                                        GetStr(fl.items[i].location, ""),
                                        "unknown", "", "", "None", "medium")])

\* Improver._parse_response
Improver_parse_response(response) ==
    LET dec == json_loads(ExtractJSON(response))
    IN  IF dec.exc = "JSONDecodeError" THEN Returned(<<>>)
        ELSE IF dec.value.t # "obj" THEN Raised("AttributeError")
        ELSE LET feedback_list ==
                     feedback_of(Get(dec.value.f, "feedback", LList(<<>>)))
             IN  IF feedback_list.exc # "none" THEN feedback_list
                 ELSE Returned(sort_by_priority(feedback_list.value))

\* the priorities of the fallback, by the severity of the issue
quality_priority(severity) ==
    IF severity = "high" THEN 1 ELSE (IF severity = "medium" THEN 2 ELSE 4)

\* the readability issues ranked with the table of the quality issues
readability_priority_as_quality(severity) == quality_priority(severity)

readability_priority(severity) ==
    IF severity = "high" THEN 2 ELSE (IF severity = "medium" THEN 3 ELSE 4)

\* the feedback of the fallback in the order it is appended, before the sort
fallback_items(depth_result, quality_result, readability_result) ==
    [i \in DOMAIN depth_result.vague_points |->
        LET vp == depth_result.vague_points[i]
        IN  ActionableFeedback(VaguePointPriority, vp.location,
                               "missing_detail", vp.issue, vp.suggestion,
                               "None", "medium")]
    \o
    [i \in DOMAIN quality_result.issues |->
        LET issue == quality_result.issues[i]
        IN  ActionableFeedback(quality_priority(issue.severity),
                               issue.location, issue.issue_type,
                               issue.description, issue.suggestion,
                               issue.reference,
                               IF issue.severity # "low" THEN "medium"
                               ELSE "low")]
    \o
    [i \in DOMAIN readability_result.issues |->
        LET issue == readability_result.issues[i]
        IN  ActionableFeedback(readability_priority(issue.severity),
                               issue.location, issue.issue_type,
                               issue.description, issue.suggestion,
                               "None", "low")]

\* Improver._generate_from_results
Improver_generate_from_results(depth_result, quality_result, readability_result) ==
    sort_by_priority(
        fallback_items(depth_result, quality_result, readability_result))

\* Improver.generate
Improver_generate(depth_result, quality_result, readability_result, resp) ==
    LET response == llm_chat(resp)
        fallback == Improver_generate_from_results(
                        depth_result, quality_result, readability_result)
    IN  IF response.exc # "none" THEN Returned(fallback)
        ELSE IF response.value.kind = "empty" THEN Returned(fallback)
        ELSE LET r == Improver_parse_response(response.value.toks)
             IN  IF r.exc # "none" THEN Returned(fallback) ELSE r

----------------------------------------------------------------------------
(* Invocations of the generation-backed components: the responses and the   *)
(* arguments they are tried on                                              *)

ScoreFields == {JAbsent, JNull, JStr, JNumStr(90), JInt(85), JInt(150), JInt(0 - 5)}
SubScoreFields == {JAbsent, JStr, JInt(55)}
PriorityFields == {JAbsent, JStr, JInt(1), JInt(5)}
SeverityFields == {"absent", "high", "low", "critical"}
Severities == {"high", "medium", "low", "critical"}

\* lists of at most MaxItems entries, the i-th made by Mk from a choice and i
ListsOf(Choices, Mk(_, _)) ==
    UNION {{[i \in 1..k |-> Mk(c[i], i)] : c \in [1..k -> Choices]} : k \in 0..MaxItems}

VaguePointItem(c, i) == IF c = "bad" THEN JBadItem ELSE JItem(JAbsent, "absent", Loc(i))
IssueItem(c, i) == IF c = "bad" THEN JBadItem ELSE JItem(JAbsent, c, Loc(i))
FeedbackItem(c, i) == IF c.t = "bad" THEN JBadItem ELSE JItem(c, "absent", Loc(i))

ListFields(Choices, Mk(_, _)) ==
    {LAbsent, LNull, LStr} \cup {LList(l) : l \in ListsOf(Choices \cup {"bad"}, Mk)}

FeedbackListFields ==
    {LAbsent, LNull, LStr}
    \cup {LList(l) : l \in ListsOf(PriorityFields \cup {[t |-> "bad", n |-> 0]}, FeedbackItem)}

DepthObj(score, vps, detailed, text) ==
    [score |-> score, vague_points |-> vps, is_detailed_enough |-> detailed,
     summary |-> text]

DepthObjs ==
    {DepthObj(sc, LAbsent, "absent", "absent") : sc \in ScoreFields}
    \cup {DepthObj(JInt(85), l, "false", "text") :
             l \in ListFields({"ok"}, VaguePointItem)}

QualityObj(score, issues, logic, accuracy, completeness, approved, text) ==
    [score |-> score, issues |-> issues, logic_score |-> logic,
     accuracy_score |-> accuracy, completeness_score |-> completeness,
     approved |-> approved, summary |-> text]

QualityObjs ==
    {QualityObj(sc, LAbsent, JAbsent, JAbsent, JAbsent, "absent", "absent") :
        sc \in ScoreFields}
    \cup {QualityObj(JInt(85), l, JInt(55), JInt(55), JInt(55), "false", "text") :
             l \in ListFields(SeverityFields, IssueItem)}
    \cup {QualityObj(JInt(85), LAbsent, a, b, c, "true", "text") :
             a \in SubScoreFields, b \in SubScoreFields, c \in SubScoreFields}

ReadabilityObj(score, level, issues, subs, text) ==
    [score |-> score, level |-> level, issues |-> issues,
     vocabulary_score |-> subs[1], syntax_score |-> subs[2],
     discourse_score |-> subs[3], surface_score |-> subs[4], summary |-> text]

ReadabilityObjs ==
    {ReadabilityObj(sc, lv, LAbsent, <<JAbsent, JAbsent, JAbsent, JAbsent>>, "absent") :
        sc \in ScoreFields, lv \in {"absent", "hard", "bogus"}}
    \cup {ReadabilityObj(JInt(85), "easy", l, <<JInt(55), JInt(55), JInt(55), JInt(55)>>, "text") :
             l \in ListFields(SeverityFields, IssueItem)}
    \cup {ReadabilityObj(JInt(85), "normal", LAbsent, subs, "text") :
             subs \in [1..4 -> SubScoreFields]}

AnalyzerObj(topic, content_type, core_points, key_terms, search_queries) ==
    [topic |-> topic, content_type |-> content_type,
     core_points |-> core_points, key_terms |-> key_terms,
     search_queries |-> search_queries]

StringLists == {LAbsent, LList(<<>>), LList(<<"s1">>), LList(<<"s1", "s2">>)}

AnalyzerObjs ==
    {AnalyzerObj(t, ct, LAbsent, LAbsent, LAbsent) :
        t \in {"absent", "topic"}, ct \in {"absent", "news", "unknown", "bogus"}}
    \cup {AnalyzerObj("topic", "documentation", cp, kt, sq) :
             cp \in StringLists, kt \in StringLists, sq \in StringLists}

ImproverObjs == {[feedback |-> l] : l \in FeedbackListFields}

\* the responses a component is tried on: every shape of text around an
\* object that decodes well and around an array, and every object in the
\* core shapes
Responses(Objs, good) ==
    {RaiseResp, EmptyResp}
    \cup {TextResp(sh, v) : sh \in Shapes, v \in {DataObj(good), DataArr}}
    \cup {TextResp(sh, DataObj(o)) : sh \in CoreShapes, o \in Objs}
    \cup {TextResp(sh, DataNull) : sh \in CoreShapes}

GoodDepthObj == DepthObj(JInt(85), LList(<<JItem(JAbsent, "absent", "p1")>>), "false", "text")
GoodQualityObj == QualityObj(JInt(85), LList(<<JItem(JAbsent, "high", "p1")>>), JInt(55), JInt(55), JInt(55), "false", "text")
GoodReadabilityObj == ReadabilityObj(JInt(85), "easy", LList(<<JItem(JAbsent, "high", "p1")>>), <<JInt(55), JInt(55), JInt(55), JInt(55)>>, "text")
GoodAnalyzerObj == AnalyzerObj("topic", "documentation", LList(<<"s1">>), LList(<<"s1">>), LList(<<"s1">>))
GoodImproverObj == [feedback |-> LList(<<JItem(JInt(5), "absent", "p1"), JItem(JInt(1), "absent", "p2")>>)]

\* responses that fail in each way the components tell apart, and one that
\* decodes
CoreResponses(good) ==
    {RaiseResp, EmptyResp, TextResp(<<"json">>, DataObj(good)),
     TextResp(<<"prose">>, DataNull), TextResp(<<"json">>, DataArr)}

\* chapter texts
Contents == SeqUpTo({"a", " "}, MaxContentLen)
CoreContents == {<<"a", " ", "a">>, <<" ">>, <<>>}

\* results handed to the Improver: the i-th vague point or issue is at place i
DepthResults ==
    {[DepthChecker_default_result EXCEPT
        !.vague_points = [i \in 1..k |-> VaguePoint(Loc(i), "vague", "clarify")]] :
     k \in 0..MaxItems}

InputIssue(severity, i) == ContentIssue("style", severity, Loc(i), "problem", "fix")

QualityResults ==
    {[QualityReviewer_default_result EXCEPT !.issues = l] :
     l \in ListsOf(Severities, InputIssue)}

ReadabilityResults ==
    {[ReadabilityChecker_default_result EXCEPT !.issues = l] :
     l \in ListsOf(Severities, InputIssue)}

NoResults ==
    [depth |-> DepthChecker_default_result,
     quality |-> QualityReviewer_default_result,
     readability |-> ReadabilityChecker_default_result]

ImproverInputs ==
    [depth : DepthResults, quality : QualityResults, readability : ReadabilityResults]

CoreImproverInputs ==
    {NoResults,
     [depth |-> [DepthChecker_default_result EXCEPT
                    !.vague_points = <<VaguePoint("p1", "vague", "clarify")>>],
      quality |-> [QualityReviewer_default_result EXCEPT
                      !.issues = <<InputIssue("high", 1)>>],
      readability |-> [ReadabilityChecker_default_result EXCEPT
                          !.issues = <<InputIssue("medium", 1)>>]]}

\* an invocation leaves the other subsystems alone
CallFrame == UNCHANGED <<streamVars, searchVars, rerunVars, pipeVars, fleetVars>>

\* the invocations each component is tried on
AnalyzerCalls ==
    (Contents \X CoreResponses(GoodAnalyzerObj))
    \cup (CoreContents \X Responses(AnalyzerObjs, GoodAnalyzerObj))
DepthResponses == Responses(DepthObjs, GoodDepthObj)
QualityResponses == Responses(QualityObjs, GoodQualityObj)
ReadabilityResponses == Responses(ReadabilityObjs, GoodReadabilityObj)
ImproverCalls ==
    (ImproverInputs \X CoreResponses(GoodImproverObj))
    \cup (CoreImproverInputs \X Responses(ImproverObjs, GoodImproverObj))

\* a component that calls llm.chat again when the call raised or returned
\* nothing
generation_calls_retry(resp) ==
    IF llm_chat(resp).exc # "none" \/ resp.kind = "empty" THEN <<resp, resp>>
    ELSE <<resp>>

\* the llm.chat calls of one invocation whose call does resp: the one call
\* in the try block; the handlers of an exception, of an empty response and
\* of text that does not decode return without calling again
generation_calls(resp) == <<resp>>

\* ContentAnalyzer.analyze(content) is called
analyze_call ==
    /\ op = "idle"
    /\ \E pair \in AnalyzerCalls :
        /\ callIn' = pair[1]
        /\ callResp' = pair[2]
        /\ llm_calls' = generation_calls(pair[2])
        /\ callOut' = ContentAnalyzer_analyze(pair[1], pair[2])
    /\ op' = "analyze"
    /\ CallFrame

\* DepthChecker.check(content, references) is called
depth_check_call ==
    /\ op = "idle"
    /\ \E resp \in DepthResponses :
        /\ callResp' = resp
        /\ llm_calls' = generation_calls(resp)
        /\ callOut' = DepthChecker_check(resp)
    /\ callIn' = <<>>
    /\ op' = "depth"
    /\ CallFrame

\* QualityReviewer.review(content, references) is called
quality_review_call ==
    /\ op = "idle"
    /\ \E resp \in QualityResponses :
        /\ callResp' = resp
        /\ llm_calls' = generation_calls(resp)
        /\ callOut' = QualityReviewer_review(resp)
    /\ callIn' = <<>>
    /\ op' = "quality"
    /\ CallFrame

\* ReadabilityChecker.check(content) is called
readability_check_call ==
    /\ op = "idle"
    /\ \E resp \in ReadabilityResponses :
        /\ callResp' = resp
        /\ llm_calls' = generation_calls(resp)
        /\ callOut' = ReadabilityChecker_check(resp)
    /\ callIn' = <<>>
    /\ op' = "readability"
    /\ CallFrame

\* Improver.generate(content, depth_result, quality_result,
\* readability_result) is called
improver_generate_call ==
    /\ op = "idle"
    /\ \E pair \in ImproverCalls :
        /\ callIn' = pair[1]
        /\ callResp' = pair[2]
        /\ llm_calls' = generation_calls(pair[2])
        /\ callOut' = Improver_generate(pair[1].depth, pair[1].quality,
                                        pair[1].readability, pair[2])
    /\ op' = "improver"
    /\ CallFrame

\* the caller goes on with what it was given
call_return ==
    /\ op # "idle"
    /\ callOut.exc = "none"
    /\ op' = "idle"
    /\ callIn' = <<>>
    /\ callResp' = <<>>
    /\ llm_calls' = <<>>
    /\ callOut' = <<>>
    /\ CallFrame

InitCall == StreamIdle /\ CallIdle /\ SearchIdle /\ RerunIdle /\ PipeIdle /\ FleetIdle

NextCall ==
    \/ analyze_call
    \/ depth_check_call
    \/ quality_review_call
    \/ readability_check_call
    \/ improver_generate_call
    \/ call_return

SpecCall == InitCall /\ [][NextCall]_vars

----------------------------------------------------------------------------
(* Properties of the invocations *)

\* the response is a text the component's json.loads fails on
FailsToDecode(resp) ==
    /\ resp.kind = "text"
    /\ json_loads(ExtractJSON(resp.toks)).exc = "JSONDecodeError"

\* the response is a text that decodes to something that is no JSON object
DecodesToNonObject(resp) ==
    /\ resp.kind = "text"
    /\ ~FailsToDecode(resp)
    /\ json_loads(ExtractJSON(resp.toks)).value.t # "obj"

IsSequence(x) == DOMAIN x = 1..Len(x)

WellFormed(name, v) ==
    CASE name = "analyze" ->
            /\ v.type = "ContentSummary"
            /\ v.content_type \in ContentType
            /\ IsSequence(v.search_queries)
            /\ IsSequence(v.key_terms)
            /\ IsSequence(v.core_points)
      [] name = "depth" ->
            /\ v.type = "DepthCheckResult"
            /\ v.score \in Int
            /\ v.is_detailed_enough \in BOOLEAN
            /\ IsSequence(v.vague_points)
      [] name = "quality" ->
            /\ v.type = "QualityReviewResult"
            /\ {v.score, v.logic_score, v.accuracy_score, v.completeness_score} \subseteq Int
            /\ v.approved \in BOOLEAN
            /\ IsSequence(v.issues)
      [] name = "readability" ->
            /\ v.type = "ReadabilityResult"
            /\ {v.score, v.vocabulary_score, v.syntax_score, v.discourse_score,
                v.surface_score} \subseteq Int
            /\ v.level \in ReadabilityLevel
            /\ IsSequence(v.issues)
      [] name = "improver" ->
            /\ IsSequence(v)
            /\ \A i \in DOMAIN v : v[i].priority \in Int

C4_DefaultOnFailure ==
    (op \in {"depth", "quality", "readability"}
     /\ (callResp.kind = "empty" \/ FailsToDecode(callResp)))
    => /\ callOut.exc = "none"
       /\ callOut.value.score = 70
       /\ op = "depth" => callOut.value.vague_points = <<>>
       /\ op = "quality" =>
            /\ callOut.value.issues = <<>>
            /\ callOut.value.logic_score = 70
            /\ callOut.value.accuracy_score = 70
            /\ callOut.value.completeness_score = 70
       /\ op = "readability" =>
            /\ callOut.value.issues = <<>>
            /\ callOut.value.level = "normal"
            /\ callOut.value.vocabulary_score = 70
            /\ callOut.value.syntax_score = 70
            /\ callOut.value.discourse_score = 70
            /\ callOut.value.surface_score = 70

\* QualityReviewer.review was given a fenced text that does not decode and
\* returned the default
C4_Witness ==
    /\ op = "quality"
    /\ FailsToDecode(callResp)
    /\ callResp.toks[1].k = "fence_json"
    /\ callOut.value.accuracy_score = 70
    /\ callOut.value.issues = <<>>

\* the generation call of Improver.generate failed: it raised, returned
\* nothing, or returned text that does not decode
ImproverCallFailed ==
    /\ op = "improver"
    /\ (callResp.kind \in {"raise", "empty"} \/ FailsToDecode(callResp))

InputCount == Len(callIn.depth.vague_points) + Len(callIn.quality.issues)
              + Len(callIn.readability.issues)

\* C5: whenever the Improver's generation call fails (it raises, returns
\* nothing, or returns text that does not decode), generate returns the
\* fallback list built from its inputs: one item per depth vague point, per
\* quality issue and per readability issue.
C5_FallbackOnFailure ==
    ImproverCallFailed =>
        /\ Len(callOut.value) = InputCount
        /\ callOut.value = Improver_generate_from_results(
                               callIn.depth, callIn.quality, callIn.readability)

\* the list as it is before the sort that ends either path of generate
ProducedItems ==
    LET fallback == fallback_items(callIn.depth, callIn.quality, callIn.readability)
    IN  IF callResp.kind \in {"raise", "empty"} THEN fallback
        ELSE IF FailsToDecode(callResp) THEN <<>>
        ELSE IF DecodesToNonObject(callResp) THEN fallback
        ELSE LET data == json_loads(ExtractJSON(callResp.toks)).value.f
                 fb == feedback_of(Get(data, "feedback", LList(<<>>)))
             IN  IF fb.exc # "none" THEN fallback ELSE fb.value

\* the entries of list in ascending priority, those of one priority in the
\* order they have in list
RECURSIVE StableOrder(_)
StableOrder(list) ==
    IF list = <<>> THEN <<>>
    ELSE LET m == CHOOSE p \in {list[i].priority : i \in DOMAIN list} :
                      \A i \in DOMAIN list : p <= list[i].priority
             IsMin(x) == x.priority = m
             NotMin(x) == x.priority # m
         IN  SelectSeq(list, IsMin) \o StableOrder(SelectSeq(list, NotMin))

\* C6: every list Improver.generate returns, on the primary and on the
\* fallback path, is non-decreasing in priority, and items of equal priority
\* keep the order in which they were produced.
C6_SortedStable ==
    op = "improver" =>
        /\ \A i, j \in DOMAIN callOut.value :
              i < j => callOut.value[i].priority <= callOut.value[j].priority
        /\ callOut.value = StableOrder(ProducedItems)

\* generate returned a list that the sort reordered and that has two items
\* of one priority
C6_Witness ==
    /\ op = "improver"
    /\ callOut.value # ProducedItems
    /\ \E i, j \in DOMAIN callOut.value :
          /\ i < j
          /\ callOut.value[i].priority = callOut.value[j].priority
          /\ callOut.value[i] # callOut.value[j]

\* number of entries of list that satisfy Test
CountOf(list, Test(_)) == Cardinality({i \in DOMAIN list : Test(list[i])})

\* C7: in the fallback every depth vague point gives an item of priority 3
\* and issue type missing_detail; a quality issue gives priority 1 if its
\* severity is high, 2 if medium, 4 otherwise; a readability issue gives
\* priority 2 if high, 3 if medium, 4 otherwise.
C7_FallbackPriorities ==
    (op = "improver" /\ callResp.kind \in {"raise", "empty"}) =>
        LET out == callOut.value
            q == callIn.quality.issues
            r == callIn.readability.issues
            Detail(x) == x.issue_type = "missing_detail"
            DetailAt3(x) == Detail(x) /\ x.priority = 3
            At(p, x) == ~Detail(x) /\ x.priority = p
            At1(x) == At(1, x)
            At2(x) == At(2, x)
            At3(x) == At(3, x)
            At4(x) == At(4, x)
            High(x) == x.severity = "high"
            Medium(x) == x.severity = "medium"
            Other(x) == x.severity \notin {"high", "medium"}
        IN  /\ Len(out) = InputCount
            /\ CountOf(out, Detail) = Len(callIn.depth.vague_points)
            /\ CountOf(out, DetailAt3) = Len(callIn.depth.vague_points)
            /\ CountOf(out, At1) = CountOf(q, High)
            /\ CountOf(out, At2) = CountOf(q, Medium) + CountOf(r, High)
            /\ CountOf(out, At3) = CountOf(r, Medium)
            /\ CountOf(out, At4) = CountOf(q, Other) + CountOf(r, Other)

\* the fallback ran on a vague point, a quality issue of a severity that is
\* none of high, medium, low, and a readability issue of severity high
C7_Witness ==
    /\ op = "improver"
    /\ callResp.kind = "raise"
    /\ callIn.depth.vague_points # <<>>
    /\ \E i \in DOMAIN callIn.quality.issues :
          callIn.quality.issues[i].severity = "critical"
    /\ \E i \in DOMAIN callIn.readability.issues :
          callIn.readability.issues[i].severity = "high"
    /\ Len(callOut.value) = InputCount

\* C10: for a chapter text that has a token, analyze returns the same kind
\* of default summary when the response is empty and when it fails to
\* decode: content type unknown, no core claims, no key terms, and a search
\* query made of the leading tokens of the text.
C10_DefaultSummaryHasQuery ==
    (op = "analyze" /\ split(callIn) # <<>>
     /\ (callResp.kind = "empty" \/ FailsToDecode(callResp)))
    => /\ callOut.value.content_type = "unknown"
       /\ callOut.value.core_points = <<>>
       /\ callOut.value.key_terms = <<>>
       /\ callOut.value.search_queries = <<join(Take(split(callIn), 5))>>

-----------------------------------------------------------------------------
(* SearchAgent (pipeline/search_agent.py).  search() is followed query by   *)
(* query; search_multi_round runs it once per round.  The search service is *)
(* the caller's: what one call of it does is chosen freely.  Strings are    *)
(* sequences of characters.                                                 *)

\* Bounds of the model
MaxHits == 2            \* items in one response of the search service
MaxQueries == 3         \* queries handed to search() when called on its own
MaxSummaryQueries == 4  \* search_queries of a summary
MaxKeyTerms == 3        \* key_terms of a summary

Round1Queries == 3          \* summary.search_queries[:3]
Round2Terms == 2            \* summary.key_terms[:2]
Round2MaxResults == 2       \* max_results_per_query=2
DefaultResultsPerRound == 5 \* results_per_round: int = 5
DefaultMaxResults == 3      \* max_results_per_query: int = 3

SearchFrame == UNCHANGED <<streamVars, callVars, rerunVars, pipeVars, fleetVars>>

\* what self.search_service can be: None, an object without a search
\* method, a search service
SearchServices == {"none", "no_search_method", "service"}

\* an item of a response that is no dict
BadItem == [url |-> "absent", title |-> "absent", content |-> "absent",
            snippet |-> "absent", dict |-> FALSE]

Item(url, title, content, snippet) ==
    [url |-> url, title |-> title, content |-> content, snippet |-> snippet,
     dict |-> TRUE]

\* the items a response is made of
Items ==
    { Item("u1", "a", "c", "s"), Item("u1", "b", "absent", "s"),
      Item("u2", "a", "absent", "absent"),
      Item("absent", "absent", "absent", "absent"), BadItem }

\* what one call of search_service.search does
SvcRaise == [t |-> "raise", success |-> "absent", results |-> LAbsent]
SvcDict(success, results) == [t |-> "dict", success |-> success, results |-> results]
SvcList(items) == [t |-> "list", success |-> "absent", results |-> LList(items)]
SvcOther == [t |-> "other", success |-> "absent", results |-> LAbsent]

ItemLists == SeqUpTo(Items, MaxHits)

Outcomes ==
    {SvcRaise, SvcOther}
    \cup {SvcDict(s, LAbsent) : s \in {"absent", "false", "true"}}
    \cup {SvcDict("true", LNull), SvcDict("false", LList(<<Item("u2", "a", "absent", "absent")>>))}
    \cup {SvcDict("true", LList(l)) : l \in ItemLists}
    \cup {SvcList(<<>>), SvcList(<<Item("u1", "a", "c", "s")>>)}

CoreOutcomes ==
    { SvcRaise, SvcDict("false", LAbsent),
      SvcDict("true", LList(<<Item("u1", "a", "c", "s")>>)),
      SvcDict("true", LList(<<Item("u2", "a", "absent", "absent"),
                              Item("u1", "b", "absent", "s")>>)) }

\* the outcomes tried for a call: all of them for the first query of a
\* search() called on its own, the core ones elsewhere
OutcomesAt(r, position) ==
    IF r = 0 /\ position = 1 THEN Outcomes ELSE CoreOutcomes

\* SearchResult(query=..., source_url=item.get('url', ''), ...)
SearchResult(query, item) ==
    [query |-> query,
     source_url |-> GetStr(item.url, ""),
     title |-> GetStr(item.title, ""),
     snippet |-> GetStr(item.content, GetStr(item.snippet, "")),
     relevance_score |-> 0]

\* the conversion loop of _execute_search: item.get raises on an item that
\* is no dict, and the handler of _execute_search returns []
convert_results(query, raw_results) ==
    IF \E i \in DOMAIN raw_results : ~raw_results[i].dict
    THEN <<>>
    ELSE [i \in DOMAIN raw_results |-> SearchResult(query, raw_results[i])]

\* SearchAgent._execute_search once the service has answered
SearchAgent_execute_search(query, response) ==
    CASE response.t = "raise" -> <<>>
      [] response.t = "dict" ->
            IF response.success # "true" THEN <<>>
            ELSE IF response.results.t = "absent" THEN <<>>
            ELSE IF response.results.t # "list" THEN <<>>
            ELSE convert_results(query, response.results.items)
      [] response.t = "list" -> convert_results(query, response.results.items)
      [] OTHER -> <<>>

\* a loop in which a result whose source_url was seen takes the place of the
\* one kept
RECURSIVE merge_results_keep_latest(_, _, _)
merge_results_keep_latest(results, seen, acc) ==
    IF results = <<>> THEN [seen |-> seen, all |-> acc]
    ELSE IF Head(results).source_url \in seen
         THEN merge_results_keep_latest(
                  Tail(results), seen,
                  [i \in DOMAIN acc |->
                      IF acc[i].source_url = Head(results).source_url
                      THEN Head(results) ELSE acc[i]])
         ELSE merge_results_keep_latest(
                  Tail(results), seen \cup {Head(results).source_url},
                  Append(acc, Head(results)))

\* the inner loop of search(): results whose source_url was seen are dropped
RECURSIVE merge_results(_, _, _)
merge_results(results, seen, acc) ==
    IF results = <<>> THEN [seen |-> seen, all |-> acc]
    ELSE IF Head(results).source_url \in seen
         THEN merge_results(Tail(results), seen, acc)
         ELSE merge_results(Tail(results), seen \cup {Head(results).source_url},
                            Append(acc, Head(results)))

\* the term alone as the query
term_query_term_only(topic, term) == term

\* f"{summary.topic} {term}"
term_query(topic, term) == topic \o <<" ">> \o term

\* the entry of search(): without a service it returns [] at once
enter_search(r, qs, max_results, next_pc) ==
    /\ round' = r
    /\ queries' = qs
    /\ max_results_per_query' = max_results
    /\ IF search_service = "none"
       THEN /\ searchPc' = next_pc
            /\ pending' = <<>>
            /\ UNCHANGED <<seen_urls, round_results>>
       ELSE /\ searchPc' = "search"
            /\ pending' = qs
            /\ seen_urls' = {}
            /\ round_results' = <<>>

\* the arguments tried
QueryStrings == {<<"a">>, <<"b">>}
QueryLists == SeqUpTo(QueryStrings, MaxQueries)
SummaryQueries == <<<<"a">>, <<"b">>, <<"c">>, <<"d">>, <<"e">>, <<"f">>>>
SummaryKeyTerms == <<<<"k">>, <<"m">>, <<"n">>, <<"o">>, <<"p">>>>
Summaries ==
    { ContentSummary(topic, "unknown", Take(SummaryKeyTerms, k), Take(SummaryQueries, n)) :
        topic \in {<<>>, <<"t">>}, k \in 0..MaxKeyTerms, n \in 0..MaxSummaryQueries }
MaxRoundsTried == {1, 2, 3}
ResultsPerRoundTried == {2, DefaultResultsPerRound}

\* search(queries) called on its own: lines 45-50
search_call ==
    /\ searchPc = "idle"
    /\ \E qs \in QueryLists : enter_search(0, qs, DefaultMaxResults, "done")
    /\ all_results' = <<>>
    /\ UNCHANGED <<summary, max_rounds, search_service, calls>>
    /\ SearchFrame

\* search_multi_round up to the call of search() for round 1: lines 124-131
search_multi_round_call ==
    /\ searchPc = "idle"
    /\ \E s \in Summaries, mr \in MaxRoundsTried, rpr \in ResultsPerRoundTried :
          /\ summary' = s
          /\ max_rounds' = mr
          /\ IF s.search_queries # <<>>
             THEN enter_search(1, Take(s.search_queries, Round1Queries),
                               (rpr \div 3) + 1, "round2")
             ELSE /\ searchPc' = "round2"
                  /\ round' = 1
                  /\ UNCHANGED <<queries, max_results_per_query, pending,
                                 seen_urls, round_results>>
    /\ all_results' = <<>>
    /\ UNCHANGED <<search_service, calls>>
    /\ SearchFrame

\* a failing query ends the loop of search()
search_query_stops_on_failure ==
    /\ searchPc = "search"
    /\ pending # <<>>
    /\ LET query == Head(pending)
           position == Len(queries) - Len(pending) + 1
       IN  IF search_service = "no_search_method"
           THEN /\ pending' = Tail(pending)
                /\ UNCHANGED <<calls, seen_urls, round_results>>
           ELSE \E response \in OutcomesAt(round, position) :
                  LET results == SearchAgent_execute_search(query, response)
                      merged == merge_results(results, seen_urls, round_results)
                  IN  /\ calls' = Append(calls, [round |-> round, query |-> query,
                                                 max_results |-> max_results_per_query,
                                                 response |-> response])
                      /\ seen_urls' = merged.seen
                      /\ round_results' = merged.all
                      /\ pending' = IF response.t = "raise" \/ response.success = "false"
                                    THEN <<>> ELSE Tail(pending)
    /\ UNCHANGED <<searchPc, summary, max_rounds, search_service, round, queries,
                   max_results_per_query, all_results>>
    /\ SearchFrame

\* one turn of the loop of search(): lines 52-64, with _execute_search
search_query ==
    /\ searchPc = "search"
    /\ pending # <<>>
    /\ LET query == Head(pending)
           position == Len(queries) - Len(pending) + 1
       IN  IF search_service = "no_search_method"
           THEN /\ pending' = Tail(pending)
                /\ UNCHANGED <<calls, seen_urls, round_results>>
           ELSE \E response \in OutcomesAt(round, position) :
                  LET results == SearchAgent_execute_search(query, response)
                      merged == merge_results(results, seen_urls, round_results)
                  IN  /\ calls' = Append(calls, [round |-> round, query |-> query,
                                                 max_results |-> max_results_per_query,
                                                 response |-> response])
                      /\ seen_urls' = merged.seen
                      /\ round_results' = merged.all
                      /\ pending' = Tail(pending)
    /\ UNCHANGED <<searchPc, summary, max_rounds, search_service, round, queries,
                   max_results_per_query, all_results>>
    /\ SearchFrame

\* search() returns (line 67) and its caller takes the list: lines 132, 141
search_return ==
    /\ searchPc = "search"
    /\ pending = <<>>
    /\ all_results' = IF round = 0 THEN round_results
                      ELSE all_results \o round_results
    /\ searchPc' = IF round = 1 THEN "round2" ELSE "done"
    /\ UNCHANGED <<summary, max_rounds, search_service, round, queries,
                   max_results_per_query, pending, seen_urls, round_results, calls>>
    /\ SearchFrame

\* search_multi_round from round 2 on: lines 135-143
search_multi_round_round2 ==
    /\ searchPc = "round2"
    /\ IF max_rounds >= 2 /\ summary.key_terms # <<>>
       THEN LET terms == Take(summary.key_terms, Round2Terms)
                term_queries == [i \in DOMAIN terms |-> term_query(summary.topic, terms[i])]
            IN  enter_search(2, term_queries, Round2MaxResults, "done")
       ELSE /\ searchPc' = "done"
            /\ UNCHANGED <<round, queries, max_results_per_query, pending,
                           seen_urls, round_results>>
    /\ UNCHANGED <<summary, max_rounds, search_service, all_results, calls>>
    /\ SearchFrame

InitSearch ==
    /\ StreamIdle /\ CallIdle /\ RerunIdle /\ PipeIdle /\ FleetIdle
    /\ searchPc = "idle"
    /\ search_service \in SearchServices
    /\ summary = <<>>
    /\ max_rounds = 0
    /\ round = 0
    /\ queries = <<>>
    /\ max_results_per_query = 0
    /\ pending = <<>>
    /\ seen_urls = {}
    /\ round_results = <<>>
    /\ all_results = <<>>
    /\ calls = <<>>

NextSearch ==
    \/ search_call
    \/ search_multi_round_call
    \/ search_query
    \/ search_return
    \/ search_multi_round_round2

SpecSearch == InitSearch /\ [][NextSearch]_vars

-----------------------------------------------------------------------------
(* Properties of SearchAgent *)

\* the calls of the search service made for round r
CallsOf(r) == SelectSeq(calls, LAMBDA c : c.round = r)

\* the call raised, or its response does not report success
FailedCall(response) ==
    \/ response.t = "raise"
    \/ response.t = "dict" /\ response.success # "true"

\* the source identifiers a response lists
ListedUrls(response) ==
    IF response.results.t = "list"
       /\ \A i \in DOMAIN response.results.items : response.results.items[i].dict
    THEN {GetStr(response.results.items[i].url, "") : i \in DOMAIN response.results.items}
    ELSE {}

\* C8: the list search_multi_round returns has at most one result per
\* source identifier, over all rounds and queries.
C8_OnePerSourceAcrossRounds ==
    (searchPc = "done" /\ round >= 1) =>
        \A i, j \in DOMAIN all_results :
            i # j => all_results[i].source_url # all_results[j].source_url

\* C9: in search(), a query whose call of the search service raises or
\* reports failure contributes no result and does not end the loop: the
\* queries are issued one by one in the order of the list, whatever the
\* earlier ones did, and the sources gathered are exactly those listed by the
\* calls that did not fail.
C9_FailedQueryDoesNotStopLoop ==
    (searchPc = "search" /\ search_service = "service") =>
        LET cs == CallsOf(round)
            issued == Len(queries) - Len(pending)
        IN  /\ Len(cs) = issued
            /\ \A i \in 1..issued : cs[i].query = queries[i]
            /\ {round_results[i].source_url : i \in DOMAIN round_results}
                 = UNION {ListedUrls(cs[i].response) :
                            i \in {k \in 1..issued : ~FailedCall(cs[k].response)}}

\* a search() of three queries at its return: the first call raised, the
\* second reported failure, the third gave results, which are returned
C9_Witness ==
    /\ searchPc = "search"
    /\ search_service = "service"
    /\ round = 0
    /\ pending = <<>>
    /\ Len(queries) = 3
    /\ Len(calls) = 3
    /\ calls[1].response.t = "raise"
    /\ calls[2].response.t = "dict" /\ calls[2].response.success = "false"
    /\ ~FailedCall(calls[3].response)
    /\ Len(round_results) = 2

-----------------------------------------------------------------------------
(* Runs of one tutorial over its chapter files.  The chapter rows and their *)
(* lookups are ChapterModel's (models/reviewer_models.py), the fingerprint  *)
(* is DocumentProcessor's (preprocessing/document_processor.py); the run    *)
(* itself, ReviewerService, follows spec.md, "Pipeline Orchestrator".       *)

\* Bounds of the model
MaxChapters == 2    \* chapter files of the tutorial
MaxRuns == 2        \* runs of the tutorial

RerunFrame == UNCHANGED <<streamVars, callVars, searchVars, pipeVars, fleetVars>>

\* raw texts of a chapter file (none is blank: _parse_file drops those)
Texts == {"a", "b", "c"}

\* hashlib.md5(content.encode('utf-8')).hexdigest()
md5(content) ==
    CASE content = "a" -> "0cc175b9c0f1b6a831c399e269772661"
      [] content = "b" -> "92eb5ffee6ae2fec3ad71c777531578f"
      [] content = "c" -> "4a8a08f09d37b73795649038408b5f33"

\* DocumentProcessor._parse_file, with the order DocumentProcessor.scan sets
MarkdownFile(order, content) ==
    [order |-> order, content |-> content, content_hash |-> md5(content)]

\* DocumentProcessor.scan over the chapter files
scan(files) == [i \in DOMAIN files |-> MarkdownFile(i - 1, files[i])]

\* the scores one evaluation of a chapter can end with
Scores == {60, 90}

None == [id |-> 0]

\* ChapterModel.create: the row inserted, columns not given at their defaults
ChapterModel_create(rows, chapter_order, raw_content, content_hash) ==
    Append(rows, [id |-> Len(rows) + 1, chapter_order |-> chapter_order,
                  raw_content |-> raw_content, content_hash |-> content_hash,
                  overall_score |-> 0, depth_score |-> 0, quality_score |-> 0,
                  readability_score |-> 0, status |-> "pending"])

\* ChapterModel.get_by_tutorial: the rows, ORDER BY chapter_order
ChapterModel_get_by_tutorial(rows) == rows

\* ChapterModel.update_scores: UPDATE ... status = 'completed' WHERE id = ?
ChapterModel_update_scores(rows, chapter_id, overall, depth, quality, readability) ==
    [i \in DOMAIN rows |->
        IF rows[i].id = chapter_id
        THEN [rows[i] EXCEPT !.overall_score = overall, !.depth_score = depth,
                             !.quality_score = quality, !.readability_score = readability,
                             !.status = "completed"]
        ELSE rows[i]]

\* ChapterModel.get_by_hash: fetchone() of the rows of the tutorial with this
\* content_hash, whatever their chapter_order; which one of several is not
\* fixed by the query.  The set of the values it can return.
ChapterModel_get_by_hash(rows, content_hash) ==
    LET found == {rows[i] : i \in {k \in DOMAIN rows : rows[k].content_hash = content_hash}}
    IN  IF found = {} THEN {None} ELSE found

\* the row of a chapter takes the text evaluated
store_content(rows, chapter_id, file) ==
    [i \in DOMAIN rows |->
        IF rows[i].id = chapter_id
        THEN [rows[i] EXCEPT !.raw_content = file.content,
                             !.content_hash = file.content_hash]
        ELSE rows[i]]

RECURSIVE create_all(_, _)
create_all(rows, files) ==
    IF files = <<>> THEN rows
    ELSE create_all(ChapterModel_create(rows, Head(files).order, Head(files).content,
                                        Head(files).content_hash),
                    Tail(files))

\* the calls one evaluation of a chapter makes
GenerationCalls == <<"analyze", "depth_check", "quality_review", "readability_check", "improver_generate">>
SearchCalls == <<"search_multi_round">>

\* what one subprocess.run of git does: returncode 0, another returncode,
\* TimeoutExpired, another exception (git cannot be started)
GitRuns == {"ok", "failed", "timeout", "oserror"}

\* the (local_path, has_update) clone_or_pull returns
GitResult(has_update) == [local_path |-> "repos/tutorial", has_update |-> has_update]

\* GitService._clone: first is the clone of the branch, second the clone
\* without a branch that is tried when the first returns non-zero
GitService_clone(first, second) ==
    CASE first = "timeout" -> Raised("RuntimeError")
      [] first = "oserror" -> Raised("OSError")
      [] first = "ok" -> Returned(GitResult(TRUE))
      [] OTHER ->
            CASE second = "timeout" -> Raised("RuntimeError")
              [] second = "oserror" -> Raised("OSError")
              [] second = "ok" -> Returned(GitResult(TRUE))
              [] OTHER -> Raised("RuntimeError")

\* GitService._pull: the returncode of the second pull is not looked at;
\* has_update compares the commit hash before and after
GitService_pull(first, second, has_update) ==
    CASE first = "timeout" -> Raised("RuntimeError")
      [] first = "oserror" -> Raised("OSError")
      [] first = "ok" -> Returned(GitResult(has_update))
      [] OTHER ->
            CASE second = "timeout" -> Raised("RuntimeError")
              [] second = "oserror" -> Raised("OSError")
              [] second = "ok" -> Returned(GitResult(has_update))
              [] OTHER -> Returned(GitResult(FALSE))

\* GitService.clone_or_pull: pull when the local path exists, else clone
GitService_clone_or_pull(exists, first, second, has_update) ==
    IF exists THEN GitService_pull(first, second, has_update)
    ELSE GitService_clone(first, second)

\* TutorialModel.update_status
TutorialModel_update_status(row, status, error_message) ==
    [row EXCEPT !.status = status, !.error_message = error_message]

\* the transaction commits what was written although the block raised
get_connection_commit_always(before, after, fails) == after

\* get_connection: the rows after a "with get_connection() as conn" block
\* that took them from before to after: committed, or rolled back when the
\* block raised
get_connection(before, after, fails) == IF fails THEN before ELSE after

\* a run begins with the acquisition of the repository; when clone_or_pull
\* raises, the run ends there with the tutorial in error
run_acquire ==
    /\ runPc = "idle"
    /\ runs < MaxRuns
    /\ runs' = runs + 1
    /\ \E first \in GitRuns, second \in GitRuns, has_update \in BOOLEAN :
          LET res == GitService_clone_or_pull(repo = "cloned", first, second, has_update)
          IN  /\ acquired' = [op |-> IF repo = "cloned" THEN "pull" ELSE "clone",
                              first |-> first,
                              second |-> IF first = "failed" THEN second ELSE "none",
                              raised |-> res.exc # "none"]
              /\ IF res.exc # "none"
                 THEN /\ tutorial' = TutorialModel_update_status(tutorial, "error", res.exc)
                      /\ runPc' = "idle"
                      /\ UNCHANGED repo
                 ELSE /\ tutorial' = TutorialModel_update_status(tutorial, "scanning", "none")
                      /\ runPc' = "scanning"
                      /\ repo' = "cloned"
    /\ cursor' = 0
    /\ skipped' = {}
    /\ gen_calls' = [i \in DOMAIN texts |-> <<>>]
    /\ search_calls' = [i \in DOMAIN texts |-> <<>>]
    /\ UNCHANGED <<texts, chapters, prior>>
    /\ RerunFrame

\* the files are scanned, a first run creates the rows; with no chapter
\* found the run ends there with the tutorial in error
run_start ==
    /\ runPc = "scanning"
    /\ prior' = chapters
    /\ IF scan(texts) = <<>>
       THEN /\ tutorial' = TutorialModel_update_status(tutorial, "error", "no chapters")
            /\ runPc' = "idle"
            /\ UNCHANGED <<chapters, cursor>>
       ELSE /\ tutorial' = TutorialModel_update_status(tutorial, "evaluating", "none")
            /\ runPc' = "running"
            /\ chapters' = IF chapters = <<>> THEN create_all(<<>>, scan(texts))
                           ELSE chapters
            /\ cursor' = 1
    /\ UNCHANGED <<texts, skipped, gen_calls, search_calls, runs, repo, acquired>>
    /\ RerunFrame

\* the run handles its next chapter: on a re-run the chapter whose
\* fingerprint get_by_hash finds is skipped, any other is evaluated and its
\* scores are written; when that write fails the run ends there
process_chapter ==
    /\ runPc = "running"
    /\ cursor <= Len(texts)
    /\ LET file == scan(texts)[cursor]
           row == ChapterModel_get_by_tutorial(chapters)[cursor]
       IN  \E existing \in ChapterModel_get_by_hash(chapters, file.content_hash),
              overall \in Scores, depth \in Scores, fails \in BOOLEAN :
              IF prior # <<>> /\ existing # None
              THEN /\ skipped' = skipped \cup {cursor}
                   /\ cursor' = cursor + 1
                   /\ UNCHANGED <<chapters, gen_calls, search_calls, runPc, tutorial>>
              ELSE LET stored == store_content(chapters, row.id, file)
                       written == ChapterModel_update_scores(
                                      stored, row.id, overall, depth, depth, depth)
                   IN  /\ chapters' = get_connection(stored, written, fails)
                       /\ gen_calls' = [gen_calls EXCEPT ![cursor] = GenerationCalls]
                       /\ search_calls' = [search_calls EXCEPT ![cursor] = SearchCalls]
                       /\ UNCHANGED skipped
                       /\ IF fails
                          THEN /\ tutorial' = TutorialModel_update_status(
                                                  tutorial, "error", "persistence")
                               /\ runPc' = "idle"
                               /\ UNCHANGED cursor
                          ELSE /\ cursor' = cursor + 1
                               /\ UNCHANGED <<runPc, tutorial>>
    /\ UNCHANGED <<texts, prior, runs, repo, acquired>>
    /\ RerunFrame

\* the run has handled every chapter
run_finish ==
    /\ runPc = "running"
    /\ cursor > Len(texts)
    /\ runPc' = "idle"
    /\ tutorial' = TutorialModel_update_status(tutorial, "completed", "none")
    /\ UNCHANGED <<texts, chapters, prior, cursor, skipped, gen_calls, search_calls,
                   runs, repo, acquired>>
    /\ RerunFrame

\* between two runs the author rewrites a chapter file
edit_chapter ==
    /\ runPc = "idle"
    /\ runs >= 1
    /\ runs < MaxRuns
    /\ \E i \in DOMAIN texts :
          \E t \in Texts \ {texts[i]} : texts' = [texts EXCEPT ![i] = t]
    /\ UNCHANGED <<runPc, chapters, prior, cursor, skipped, gen_calls, search_calls,
                   runs, tutorial, repo, acquired>>
    /\ RerunFrame

InitRerun ==
    /\ StreamIdle /\ CallIdle /\ SearchIdle /\ PipeIdle /\ FleetIdle
    /\ runPc = "idle"
    /\ texts \in UNION {[1..n -> Texts] : n \in 0..MaxChapters}
    /\ chapters = <<>>
    /\ prior = <<>>
    /\ cursor = 0
    /\ skipped = {}
    /\ gen_calls = <<>>
    /\ search_calls = <<>>
    /\ runs = 0
    /\ tutorial = [status |-> "pending", error_message |-> "none"]
    /\ repo = "absent"
    /\ acquired = [op |-> "none"]

NextRerun ==
    \/ run_acquire
    \/ run_start
    \/ process_chapter
    \/ run_finish
    \/ edit_chapter

SpecRerun == InitRerun /\ [][NextRerun]_vars

\* C2: on a re-run a chapter is skipped if and only if the fingerprint of its
\* current text equals the fingerprint stored for the same chapter position
\* in the prior run; a skipped chapter has no generation call and no search
\* call made for it, and its stored scores and status are as they were.
C2_SkipIffSamePositionFingerprint ==
    (runPc = "running" /\ prior # <<>>) =>
        \A i \in 1..(cursor - 1) :
            /\ (i \in skipped) <=> (md5(texts[i]) = prior[i].content_hash)
            /\ (i \in skipped) =>
                 /\ gen_calls[i] = <<>>
                 /\ search_calls[i] = <<>>
                 /\ chapters[i] = prior[i]

-----------------------------------------------------------------------------
(* Properties of the response parsers *)

\* the kinds of the tokens of a response text, in order
ShapeOf(resp) == [i \in DOMAIN resp.toks |-> resp.toks[i].k]

\* one JSON text on its own, between two fence lines, or inside prose
BareShapes == {<<"json">>}
FencedShapes == {<<"fence_json", "json", "fence">>, <<"fence", "json", "fence">>}
EmbeddedShapes == {<<"prose", "json">>, <<"json", "prose">>, <<"prose", "json", "prose">>}

\* the JSON text of a response in one of these shapes
Payload(resp) == resp.toks[CHOOSE i \in DOMAIN resp.toks : resp.toks[i].k = "json"].v

\* the response is the component's well-formed JSON object in one of the
\* three shapes
GoodObjectIn(shapes) ==
    /\ op # "idle"
    /\ callResp.kind = "text"
    /\ ShapeOf(callResp) \in shapes
    /\ Payload(callResp) =
         DataObj(CASE op = "analyze" -> GoodAnalyzerObj
                   [] op = "depth" -> GoodDepthObj
                   [] op = "quality" -> GoodQualityObj
                   [] op = "readability" -> GoodReadabilityObj
                   [] op = "improver" -> GoodImproverObj)

\* what the component returned carries the content of its well-formed object
CarriesDecodedContent ==
    /\ callOut.exc = "none"
    /\ CASE op = "analyze" -> callOut.value.topic = "topic"
                              /\ callOut.value.content_type = "documentation"
                              /\ callOut.value.search_queries = <<"s1">>
         [] op \in {"depth", "quality", "readability"} -> callOut.value.score = 85
         [] op = "improver" -> [i \in DOMAIN callOut.value |-> callOut.value[i].priority] = <<1, 5>>

\* C11: every component decodes a valid JSON object given bare, between
\* code-fence lines, or embedded in prose without a fence (from the first
\* '{' to the last '}'): what it returns carries the decoded content, not
\* the default.
C11_DecodesAllShapes ==
    GoodObjectIn(BareShapes \cup FencedShapes \cup EmbeddedShapes)
        => CarriesDecodedContent

-----------------------------------------------------------------------------
(* Properties of the chapter rows *)

\* the moves of a chapter's status the lifecycle allows
LifecycleMoves ==
    {<<"pending", "evaluating">>, <<"evaluating", "completed">>, <<"evaluating", "error">>}

\* C12: a chapter row is created pending and its status moves only along
\* pending -> evaluating -> completed or error, the last two being terminal;
\* the update that sets completed writes the overall, depth, quality and
\* readability scores.
C12_ChapterLifecycle ==
    [][\A i \in DOMAIN chapters' :
         IF i \in DOMAIN chapters
         THEN /\ \/ chapters'[i].status = chapters[i].status
                 \/ <<chapters[i].status, chapters'[i].status>> \in LifecycleMoves
              /\ (chapters'[i].status = "completed" /\ chapters[i].status # "completed")
                    => {chapters'[i].overall_score, chapters'[i].depth_score,
                        chapters'[i].quality_score, chapters'[i].readability_score}
                          \subseteq Scores
         ELSE chapters'[i].status = "pending"]_vars

-----------------------------------------------------------------------------
(* Properties of the streaming run, continued *)

\* C13: when the subscriber disconnects while the run is in progress, the
\* run's queue is released at that point: once generate() has ended on the
\* disconnect the queue is out of _evaluation_queues, and no event the
\* worker emits from then on is added to it.
C13_QueueReleasedOnDisconnect ==
    [][(~connected' /\ genPc' = "closed" /\ workerPc' = "running")
         => /\ task_id \notin evaluation_queues'
            /\ Len(queue') <= Len(queue)]_vars

\* C14: whatever the subscriber does, the worker is never made to wait: each
\* of its steps can be taken as soon as it is reached; after a disconnect it
\* still runs evaluate_tutorial_sync to its end, and once it has ended the
\* run's entry is out of _evaluation_queues.
C14_WorkerOutlivesSubscriber ==
    /\ [](workerPc = "running" /\ emitted < MaxProgress
            => ENABLED evaluate_tutorial_sync_progress)
    /\ [](workerPc = "running"
            => ENABLED run_evaluation_complete /\ ENABLED run_evaluation_error)
    /\ [](workerPc = "finally" => ENABLED run_evaluation_finally)
    /\ [](~connected => <>(workerPc = "finished"))
    /\ [](workerPc = "finished" => task_id \notin evaluation_queues)

\* the subscriber left after the first progress event and generate() has
\* ended; the worker has reported all its progress and the end of the run to
\* the queue nobody reads, and has removed its entry
C14_Witness ==
    /\ ~connected
    /\ genPc = "closed"
    /\ delivered = <<"connected", "progress">>
    /\ workerPc = "finished"
    /\ emitted = MaxProgress
    /\ Len(sent) = MaxProgress + 1
    /\ Last(sent).type = "complete"
    /\ Len(queue) = MaxProgress
    /\ task_id \notin evaluation_queues

\* the later of two times
LaterOf(a, b) == IF a >= b THEN a ELSE b

\* C15: at the heartbeat check of generate(), before the terminal event, a
\* heartbeat is emitted exactly when more than the interval of 10 seconds
\* has passed with no event forwarded: since the last heartbeat (or the
\* start) and since the last progress event forwarded.
C15_HeartbeatOnlyWhenSilent ==
    [][(genPc = "heartbeat" /\ genPc' = "get")
         => ((delivered' = Append(delivered, "heartbeat"))
               <=> (now - LaterOf(last_heartbeat, last_progress) > HeartbeatInterval))]_vars

\* the events of the run among those yielded, in order
Forwarded == SelectSeq(delivered, LAMBDA e : e \notin {"connected", "heartbeat"})

TypesOf(events) == [i \in DOMAIN events |-> events[i].type]

-----------------------------------------------------------------------------
(* Properties of the runs of a tutorial *)

\* what the claims call the persisted scores and status of a chapter
PersistedScores(row) ==
    <<row.overall_score, row.depth_score, row.quality_score, row.readability_score,
      row.status>>

\* the step is the one in which the write of a chapter's scores failed
WriteFails == runPc = "running" /\ runPc' = "idle" /\ cursor <= Len(texts)

\* C17: when the write of a chapter's scores fails, that write is rolled
\* back and leaves nothing of itself in the row, and the scores and status
\* committed for the earlier chapters of the run stay as they were.
C17_ChapterGranularity ==
    [][WriteFails =>
         \A i \in DOMAIN chapters :
             PersistedScores(chapters'[i]) = PersistedScores(chapters[i])]_vars

\* the run wrote the scores of its first chapter, and the write for the
\* second failed: the first is completed with its scores, the second is as
\* it was created
C17_Witness ==
    /\ runPc = "idle"
    /\ tutorial = [status |-> "error", error_message |-> "persistence"]
    /\ cursor = 2
    /\ prior = <<>>
    /\ chapters[1].status = "completed"
    /\ chapters[1].overall_score = 90
    /\ PersistedScores(chapters[2]) = <<0, 0, 0, 0, "pending">>

\* clone_or_pull did not obtain the repository: the clone or the pull ended
\* on a non-zero returncode at each try, timed out or could not be run
AcquisitionFailed ==
    /\ acquired.op \in {"clone", "pull"}
    /\ \/ acquired.first \in {"timeout", "oserror"}
       \/ acquired.first = "failed" /\ acquired.second # "ok"

\* the repository was obtained and the scan found no chapter
NoChaptersFound ==
    /\ acquired.op \in {"clone", "pull"}
    /\ ~AcquisitionFailed
    /\ runPc # "scanning"
    /\ texts = <<>>

\* C18: when the documents cannot be obtained (the clone fails, the pull
\* fails, or no chapter is found) the run ends at once: the tutorial is in
\* error with a message and no chapter is processed.
C18_AcquisitionFailureIsFatal ==
    (AcquisitionFailed \/ NoChaptersFound) =>
        /\ runPc = "idle"
        /\ tutorial.status = "error"
        /\ tutorial.error_message # "none"
        /\ cursor = 0
        /\ \A i \in DOMAIN gen_calls : gen_calls[i] = <<>>

-----------------------------------------------------------------------------
(* Properties of one invocation, continued *)

\* C19: every result the Depth, Quality and Readability evaluators return
\* has an integer score between 0 and 100, whatever the generation response
\* is, a decodable JSON object with a score out of that range included.
C19_ScoreInRange ==
    (op \in {"depth", "quality", "readability"} /\ callOut.exc = "none") =>
        callOut.value.score \in 0..100

FeedbackKey(fb) == <<fb.location, fb.issue_type, fb.problem>>

\* C21: the list Improver.generate returns is de-duplicated: no two of its
\* items have the same location, issue type and problem statement, also when
\* the depth, quality and readability results report one defect more than
\* once.
C21_FeedbackDeduplicated ==
    (op = "improver" /\ callOut.exc = "none") =>
        \A i, j \in DOMAIN callOut.value :
            i # j => FeedbackKey(callOut.value[i]) # FeedbackKey(callOut.value[j])

-----------------------------------------------------------------------------
(* Python floats: IEEE 754 binary64, round to nearest, ties to even.  A     *)
(* natural number of any size is the sequence of its binary digits, the     *)
(* most significant first and no leading zero; a float that is not negative *)
(* is [m, e] for the value m * 2^e, m of MantissaBits digits or zero.       *)

\* digits of the significand of a binary64
MantissaBits == 53

\* digits computed of a quotient before it is rounded
QuotientBits == MantissaBits + 11

RECURSIVE BitsOf(_)
BitsOf(n) == IF n = 0 THEN <<>> ELSE BitsOf(n \div 2) \o <<n % 2>>

RECURSIVE NatOf(_)
NatOf(bits) ==
    IF bits = <<>> THEN 0
    ELSE 2 * NatOf(SubSeq(bits, 1, Len(bits) - 1)) + Last(bits)

Zeros(k) == [i \in 1..k |-> 0]

RECURSIVE Strip(_)
Strip(bits) ==
    IF bits = <<>> THEN <<>>
    ELSE IF bits[1] = 0 THEN Strip(Tail(bits)) ELSE bits

\* a + b
AddBits(a, b) ==
    LET n == (IF Len(a) > Len(b) THEN Len(a) ELSE Len(b)) + 1
        x == Zeros(n - Len(a)) \o a
        y == Zeros(n - Len(b)) \o b
        \* the carry into digit i comes from a lower digit j where both have
        \* a 1, through digits where one of them has
        carry(i) == \E j \in (i + 1)..n :
                       /\ x[j] = 1 /\ y[j] = 1
                       /\ \A k \in (i + 1)..(j - 1) : x[k] + y[k] = 1
    IN  Strip([i \in 1..n |-> (x[i] + y[i] + (IF carry(i) THEN 1 ELSE 0)) % 2])

\* a * s for a small s
RECURSIVE MulSmall(_, _)
MulSmall(a, s) ==
    IF s = 0 \/ a = <<>> THEN <<>>
    ELSE LET doubled == MulSmall(a, s \div 2) \o <<0>>
         IN  IF s % 2 = 1 THEN AddBits(Strip(doubled), a) ELSE Strip(doubled)

FloatZero == [m |-> <<>>, e |-> 0]

\* the float nearest to bits * 2^e, plus something below the last digit
\* when sticky
Round(bits, e, sticky) ==
    IF bits = <<>> THEN FloatZero
    ELSE IF Len(bits) <= MantissaBits
    THEN [m |-> bits \o Zeros(MantissaBits - Len(bits)),
          e |-> e - (MantissaBits - Len(bits))]
    ELSE LET top == SubSeq(bits, 1, MantissaBits)
             guard == bits[MantissaBits + 1]
             rest == sticky \/ \E i \in (MantissaBits + 2)..Len(bits) : bits[i] = 1
             up == guard = 1 /\ (rest \/ top[MantissaBits] = 1)
             m == IF up THEN AddBits(top, <<1>>) ELSE top
             drop == Len(bits) - MantissaBits
         IN  IF Len(m) > MantissaBits
             THEN [m |-> SubSeq(m, 1, MantissaBits), e |-> e + drop + 1]
             ELSE [m |-> m, e |-> e + drop]

\* the first k digits after the point of r / d, for r < d
RECURSIVE FractionBits(_, _, _)
FractionBits(r, d, k) ==
    IF k = 0 THEN <<>>
    ELSE IF 2 * r >= d THEN <<1>> \o FractionBits(2 * r - d, d, k - 1)
    ELSE <<0>> \o FractionBits(2 * r, d, k - 1)

\* what is left of r after them
RECURSIVE FractionRest(_, _, _)
FractionRest(r, d, k) ==
    IF k = 0 THEN r
    ELSE IF 2 * r >= d THEN FractionRest(2 * r - d, d, k - 1)
    ELSE FractionRest(2 * r, d, k - 1)

\* the float a decimal literal n/d denotes, and the float n / d of two ints
float_of_ratio(n, d) ==
    Round(Strip(BitsOf(n \div d) \o FractionBits(n % d, d, QuotientBits)),
          0 - QuotientBits, FractionRest(n % d, d, QuotientBits) # 0)

\* x * s for a float x and a small int s that is not negative
float_mul_int(x, s) == Round(MulSmall(x.m, s), x.e, FALSE)

\* x + y
float_add(x, y) ==
    IF x.m = <<>> THEN y
    ELSE IF y.m = <<>> THEN x
    ELSE LET lo == IF x.e < y.e THEN x.e ELSE y.e
         IN  Round(AddBits(x.m \o Zeros(x.e - lo), y.m \o Zeros(y.e - lo)),
                   lo, FALSE)

\* int(x) for a float x that is not negative: the digits before the point
float_int(x) ==
    IF x.m = <<>> THEN 0
    ELSE IF x.e >= 0 THEN NatOf(x.m \o Zeros(x.e))
    ELSE IF 0 - x.e >= Len(x.m) THEN 0
    ELSE NatOf(SubSeq(x.m, 1, Len(x.m) + x.e))

\* x = y, x <= y for floats in this form
float_le(x, y) ==
    \/ x.m = <<>>
    \/ /\ y.m # <<>>
       /\ \/ x.e < y.e
          \/ x.e = y.e /\ (x.m = y.m \/ \E i \in 1..MantissaBits :
                              /\ x.m[i] < y.m[i]
                              /\ \A j \in 1..(i - 1) : x.m[j] = y.m[j])

-----------------------------------------------------------------------------
(* ReferenceManager: relevance of the search results to a summary.  The     *)
(* score is kept as the exact fraction [n, d]; the order of two scores and  *)
(* their place in [0, 1] are those of the floats the code computes, but two *)
(* scores that are equal as fractions may differ in their last digit as     *)
(* floats.                                                                  *)

\* Bounds of the model
MaxRelevanceResults == 3    \* results handed to evaluate_relevance
MaxCorePoints == 2          \* core_points of a summary

Rat(n, d) == [n |-> n, d |-> d]
rat_add(x, y) == Rat(x.n * y.d + y.n * x.d, x.d * y.d)
rat_le(x, y) == x.n * y.d <= y.n * x.d
rat_eq(x, y) == x.n * y.d = y.n * x.d

\* the shares of the score: "score += 0.3", "0.4 * (...)", "0.3 * (...)",
\* in tenths
TopicShare == 3
TermsShare == 4
PointsShare == 3

\* "len(point_words & text_words) >= 2"
PointOverlap == 2

\* str.lower()
lower(text) ==
    [i \in DOMAIN text |->
        IF text[i] = "A" THEN "a" ELSE IF text[i] = "B" THEN "b" ELSE text[i]]

\* "sub in text"
Contains(sub, text) ==
    \E i \in 0..(Len(text) - Len(sub)) : SubSeq(text, i + 1, i + Len(sub)) = sub

\* the score without the cap, a matched term adding its share whole
ReferenceManager_calculate_relevance_uncapped(result, summ) ==
    LET text == lower(result.title \o <<" ">> \o result.snippet)
        matched_terms == Cardinality({i \in DOMAIN summ.key_terms :
                                         Contains(lower(summ.key_terms[i]), text)})
    IN  rat_add(IF summ.topic # <<>> /\ Contains(lower(summ.topic), text)
                THEN Rat(TopicShare, 10) ELSE Rat(0, 1),
                Rat(TermsShare * matched_terms, 10))

\* ReferenceManager._calculate_relevance
ReferenceManager_calculate_relevance(result, summ) ==
    LET text == lower(result.title \o <<" ">> \o result.snippet)
        topic == IF summ.topic # <<>> /\ Contains(lower(summ.topic), text)
                 THEN Rat(TopicShare, 10) ELSE Rat(0, 1)
        matched_terms == Cardinality({i \in DOMAIN summ.key_terms :
                                         Contains(lower(summ.key_terms[i]), text)})
        terms == IF summ.key_terms # <<>>
                 THEN Rat(TermsShare * matched_terms, 10 * Len(summ.key_terms))
                 ELSE Rat(0, 1)
        text_words == Range(split(text))
        matched_points ==
            Cardinality({i \in DOMAIN summ.core_points :
                Cardinality(Range(split(lower(summ.core_points[i])))
                            \cap text_words) >= PointOverlap})
        points == IF summ.core_points # <<>>
                  THEN Rat(PointsShare * matched_points, 10 * Len(summ.core_points))
                  ELSE Rat(0, 1)
        score == rat_add(rat_add(topic, terms), points)
    IN  IF rat_le(score, Rat(1, 1)) THEN score ELSE Rat(1, 1)

\* x put before the entries whose score is not above x's: descending, but
\* entries of one score end in the reverse of their order
insert_by_relevance_before_equal(sorted, x) ==
    LET before == {i \in DOMAIN sorted :
                      ~rat_le(sorted[i].relevance_score, x.relevance_score)}
        n == Cardinality(before)
    IN  SubSeq(sorted, 1, n) \o <<x>> \o SubSeq(sorted, n + 1, Len(sorted))

\* x put after the entries of the sorted list whose score is at least x's
insert_by_relevance(sorted, x) ==
    LET before == {i \in DOMAIN sorted :
                      rat_le(x.relevance_score, sorted[i].relevance_score)}
        n == Cardinality(before)
    IN  SubSeq(sorted, 1, n) \o <<x>> \o SubSeq(sorted, n + 1, Len(sorted))

\* list.sort(key=lambda x: x.relevance_score, reverse=True): stable
RECURSIVE sort_by_relevance(_)
sort_by_relevance(list) ==
    IF list = <<>> THEN <<>>
    ELSE insert_by_relevance(
             sort_by_relevance(SubSeq(list, 1, Len(list) - 1)), Last(list))

\* ReferenceManager.evaluate_relevance
ReferenceManager_evaluate_relevance(results, summ) ==
    IF results = <<>> THEN <<>>
    ELSE sort_by_relevance(
             [i \in DOMAIN results |->
                 [results[i] EXCEPT !.relevance_score =
                     ReferenceManager_calculate_relevance(results[i], summ)]])

\* the results and summaries evaluate_relevance is tried on: the i-th result
\* has the source of place i
RelevanceTexts ==
    {[title |-> <<"A", " ", "b">>, snippet |-> <<>>],
     [title |-> <<"a">>, snippet |-> <<"b", " ", "c">>],
     [title |-> <<"a", "b">>, snippet |-> <<>>],
     [title |-> <<>>, snippet |-> <<>>]}

RelevanceResult(c, i) ==
    [query |-> "q", source_url |-> Loc(i), title |-> c.title,
     snippet |-> c.snippet, relevance_score |-> Rat(0, 1)]

RelevanceResultLists ==
    UNION {{[i \in 1..k |-> RelevanceResult(c[i], i)] : c \in [1..k -> RelevanceTexts]} :
           k \in 0..MaxRelevanceResults}

RelevanceTopics == {<<>>, <<"A">>, <<"c">>}
RelevanceTerms == {<<"b">>, <<"c">>}
RelevancePoints == {<<"a", " ", "B">>, <<"b", " ", "c", " ", "d">>}

RelevanceSummary(topic, key_terms, core_points) ==
    [ContentSummary(topic, "unknown", key_terms, <<>>) EXCEPT
        !.core_points = core_points]

RelevanceSummaries ==
    {RelevanceSummary(t, k, p) :
        t \in RelevanceTopics,
        k \in SeqUpTo(RelevanceTerms, MaxKeyTerms),
        p \in SeqUpTo(RelevancePoints, MaxCorePoints)}

CoreRelevanceSummaries ==
    {RelevanceSummary(<<>>, <<>>, <<>>),
     RelevanceSummary(<<"A">>, <<<<"b">>>>, <<<<"a", " ", "B">>>>),
     RelevanceSummary(<<"c">>, <<<<"b">>, <<"c">>>>, <<<<"b", " ", "c", " ", "d">>>>)}

CoreRelevanceResultLists ==
    {<<>>,
     <<RelevanceResult([title |-> <<"a">>, snippet |-> <<"b", " ", "c">>], 1)>>,
     <<RelevanceResult([title |-> <<>>, snippet |-> <<>>], 1),
       RelevanceResult([title |-> <<"A", " ", "b">>, snippet |-> <<>>], 2)>>}

RelevanceCalls ==
    (RelevanceResultLists \X CoreRelevanceSummaries)
    \cup (CoreRelevanceResultLists \X RelevanceSummaries)

PipeFrame == UNCHANGED <<streamVars, callVars, searchVars, rerunVars, fleetVars>>

\* ReferenceManager.evaluate_relevance(results, summary) is called
evaluate_relevance_call ==
    /\ fn = "idle"
    /\ \E pair \in RelevanceCalls :
        /\ fnIn' = [results |-> pair[1], summary |-> pair[2]]
        /\ fnOut' = ReferenceManager_evaluate_relevance(pair[1], pair[2])
    /\ fn' = "evaluate_relevance"
    /\ PipeFrame

-----------------------------------------------------------------------------
(* ScoreAggregator *)

\* a table whose row for news gives accuracy 0.45
WEIGHT_CONFIGS_heavy_news ==
    [t \in ContentType |->
        [depth |-> IF t = "news" THEN 10 ELSE 20,
         accuracy |-> IF t = "news" THEN 45 ELSE 20,
         completeness |-> 20, logic |-> 20, readability |-> 20]]

\* WEIGHT_CONFIGS: the decimal literals of the table, in hundredths
WEIGHT_CONFIGS ==
    [technical_tutorial |->
        [depth |-> 25, accuracy |-> 25, completeness |-> 15, logic |-> 15, readability |-> 20],
     science_popular |->
        [depth |-> 15, accuracy |-> 20, completeness |-> 15, logic |-> 15, readability |-> 35],
     documentation |->
        [depth |-> 20, accuracy |-> 30, completeness |-> 25, logic |-> 15, readability |-> 10],
     news |->
        [depth |-> 10, accuracy |-> 35, completeness |-> 20, logic |-> 15, readability |-> 20],
     opinion |->
        [depth |-> 20, accuracy |-> 15, completeness |-> 15, logic |-> 30, readability |-> 20],
     unknown |->
        [depth |-> 20, accuracy |-> 20, completeness |-> 20, logic |-> 20, readability |-> 20]]

\* "weights.get(key, 0.2)", in hundredths
DefaultWeight == 20

\* the float a literal of so many hundredths is
float_literal(hundredths) == float_of_ratio(hundredths, 100)

\* weights.get(key, 0.2)
weights_get(weights, key) ==
    float_literal(IF key \in DOMAIN weights THEN weights[key] ELSE DefaultWeight)

\* "self.custom_weights or WEIGHT_CONFIGS.get(content_type,
\* WEIGHT_CONFIGS[ContentType.UNKNOWN])": no custom weights is <<>>, which
\* stands for None and for {}
weights_of(custom_weights, content_type) ==
    IF custom_weights # <<>> THEN custom_weights
    ELSE IF content_type \in DOMAIN WEIGHT_CONFIGS THEN WEIGHT_CONFIGS[content_type]
    ELSE WEIGHT_CONFIGS["unknown"]

\* ScoreAggregator.aggregate, of an aggregator made with custom_weights
ScoreAggregator_aggregate(custom_weights, depth_result, quality_result, readability_result, content_type) ==
    LET weights == weights_of(custom_weights, content_type)
        overall_score ==
            float_add(float_add(float_add(float_add(
                float_mul_int(weights_get(weights, "depth"), depth_result.score),
                float_mul_int(weights_get(weights, "accuracy"), quality_result.accuracy_score)),
                float_mul_int(weights_get(weights, "completeness"), quality_result.completeness_score)),
                float_mul_int(weights_get(weights, "logic"), quality_result.logic_score)),
                float_mul_int(weights_get(weights, "readability"), readability_result.score))
    IN  [overall_score |-> float_int(overall_score),
         dimension_scores |->
            [depth |-> depth_result.score,
             accuracy |-> quality_result.accuracy_score,
             completeness |-> quality_result.completeness_score,
             logic |-> quality_result.logic_score,
             clarity |-> readability_result.vocabulary_score,
             usefulness |-> 0, novelty |-> 0,
             readability |-> readability_result.score]]

\* a grading whose bands leave out their lower edge
ScoreAggregator_get_grade_exclusive(score) ==
    IF score > 90 THEN "A"
    ELSE IF score > 80 THEN "B"
    ELSE IF score > 70 THEN "C"
    ELSE IF score > 60 THEN "D"
    ELSE "F"

\* ScoreAggregator.get_grade
ScoreAggregator_get_grade(score) ==
    IF score >= 90 THEN "A"
    ELSE IF score >= 80 THEN "B"
    ELSE IF score >= 70 THEN "C"
    ELSE IF score >= 60 THEN "D"
    ELSE "F"

\* the results aggregate is tried on: the five scores it reads, and the
\* quality result's own score and the vocabulary score, which it does not
\* weigh
AggregateInput(d, a, c, l, r) ==
    [depth |-> [DepthChecker_default_result EXCEPT !.score = d],
     quality |-> [QualityReviewer_default_result EXCEPT
                     !.score = 40, !.accuracy_score = a,
                     !.completeness_score = c, !.logic_score = l],
     readability |-> [ReadabilityChecker_default_result EXCEPT !.score = r]]

\* every score from 0 to 100 in all five places, and mixed scores
AllScores == 0..100
MixedScores == {0, 100}
AggregateInputs ==
    {AggregateInput(s, s, s, s, s) : s \in AllScores}
    \cup {AggregateInput(v[1], v[2], v[3], v[4], v[5]) : v \in [1..5 -> MixedScores]}

CoreAggregateInputs ==
    {AggregateInput(13, 13, 13, 13, 13), AggregateInput(90, 80, 70, 60, 50)}

\* the content types given: those of the table, and one that has no row
ContentTypesTried == ContentType \cup {"blog"}

\* custom weights: none, a full row, and one that has depth alone
CustomWeightsTried ==
    {<<>>,
     [depth |-> 50, accuracy |-> 50, completeness |-> 0, logic |-> 0, readability |-> 0],
     [depth |-> 20]}

AggregateCalls ==
    (AggregateInputs \X {"technical_tutorial", "unknown"} \X {<<>>})
    \cup (CoreAggregateInputs \X ContentTypesTried \X CustomWeightsTried)

\* ScoreAggregator(custom_weights).aggregate(depth_result, quality_result,
\* readability_result, content_type) is called
aggregate_call ==
    /\ fn = "idle"
    /\ \E call \in AggregateCalls :
        /\ fnIn' = [results |-> call[1], content_type |-> call[2],
                    custom_weights |-> call[3]]
        /\ fnOut' = ScoreAggregator_aggregate(call[3], call[1].depth, call[1].quality,
                                              call[1].readability, call[2])
    /\ fn' = "aggregate"
    /\ PipeFrame

\* the scores get_grade is tried on
GradeScores == (0 - 5)..150

\* ScoreAggregator.get_grade(score) is called
get_grade_call ==
    /\ fn = "idle"
    /\ \E score \in GradeScores :
        /\ fnIn' = [score |-> score]
        /\ fnOut' = ScoreAggregator_get_grade(score)
    /\ fn' = "get_grade"
    /\ PipeFrame

\* the caller goes on with what it was given
pipe_return ==
    /\ fn # "idle"
    /\ fn' = "idle"
    /\ fnIn' = <<>>
    /\ fnOut' = <<>>
    /\ PipeFrame

InitPipe == StreamIdle /\ CallIdle /\ SearchIdle /\ RerunIdle /\ PipeIdle /\ FleetIdle

NextPipe ==
    \/ evaluate_relevance_call
    \/ aggregate_call
    \/ get_grade_call
    \/ pipe_return

SpecPipe == InitPipe /\ [][NextPipe]_vars

-----------------------------------------------------------------------------
(* Properties of the relevance scores *)

\* C22: for every search result and every summary, one with an empty
\* topic, no key terms and no core points included, the relevance score
\* evaluate_relevance gives the result lies in [0, 1].
C22_RelevanceBounded ==
    fn = "evaluate_relevance" =>
        \A i \in DOMAIN fnOut :
            /\ rat_le(Rat(0, 1), fnOut[i].relevance_score)
            /\ rat_le(fnOut[i].relevance_score, Rat(1, 1))

\* a result that matches the topic, both key terms and the core point was
\* given the score 1, and another of the same call the score 0
C22_Witness ==
    /\ fn = "evaluate_relevance"
    /\ fnIn.summary.topic # <<>>
    /\ Len(fnIn.summary.key_terms) = 2
    /\ fnIn.summary.core_points # <<>>
    /\ \E i \in DOMAIN fnOut : rat_eq(fnOut[i].relevance_score, Rat(1, 1))
    /\ \E i \in DOMAIN fnOut : rat_eq(fnOut[i].relevance_score, Rat(0, 1))

\* the result without the score it was given
Unscored(result) == [result EXCEPT !.relevance_score = Rat(0, 1)]

\* the places of the input in the order of the output: the sources of the
\* results tried are their places in the input
InputPlace(result) == CHOOSE i \in DOMAIN fnIn.results : fnIn.results[i].source_url = result.source_url

\* C23: evaluate_relevance returns a permutation of the results it was
\* given, none dropped and none added, each with its score, in descending
\* order of the score, results of equal score in the order of the input.
C23_ScoredPermutationSorted ==
    fn = "evaluate_relevance" =>
        /\ Len(fnOut) = Len(fnIn.results)
        /\ \A i \in DOMAIN fnIn.results :
              \E j \in DOMAIN fnOut : Unscored(fnOut[j]) = fnIn.results[i]
        /\ \A j \in DOMAIN fnOut :
              fnOut[j].relevance_score =
                  ReferenceManager_calculate_relevance(Unscored(fnOut[j]), fnIn.summary)
        /\ \A i, j \in DOMAIN fnOut :
              i < j =>
                 /\ rat_le(fnOut[j].relevance_score, fnOut[i].relevance_score)
                 /\ rat_eq(fnOut[i].relevance_score, fnOut[j].relevance_score)
                       => InputPlace(fnOut[i]) < InputPlace(fnOut[j])

\* three results were given, the sort moved a later one to the front, and
\* two of equal score are in the output
C23_Witness ==
    /\ fn = "evaluate_relevance"
    /\ Len(fnOut) = 3
    /\ InputPlace(fnOut[1]) # 1
    /\ \E i, j \in DOMAIN fnOut :
          /\ i < j
          /\ rat_eq(fnOut[i].relevance_score, fnOut[j].relevance_score)
          /\ ~rat_eq(fnOut[i].relevance_score, Rat(0, 1))

-----------------------------------------------------------------------------
(* Properties of the aggregation *)

\* the five scores the claims weigh, with the weight each has in row
WeighedScores(results) ==
    [depth |-> results.depth.score,
     accuracy |-> results.quality.accuracy_score,
     completeness |-> results.quality.completeness_score,
     logic |-> results.quality.logic_score,
     readability |-> results.readability.score]

Dimensions == {"depth", "accuracy", "completeness", "logic", "readability"}

RECURSIVE SumOver(_, _)
SumOver(keys, f) ==
    IF keys = {} THEN 0
    ELSE LET k == CHOOSE k \in keys : TRUE IN f[k] + SumOver(keys \ {k}, f)

\* the weighted sum of the scores under row, in hundredths
WeightedSum(row, scores) ==
    SumOver(Dimensions, [k \in Dimensions |-> row[k] * scores[k]])

\* the row the claims give a content type
RowOf(content_type) ==
    IF content_type \in ContentType THEN WEIGHT_CONFIGS[content_type]
    ELSE WEIGHT_CONFIGS["unknown"]

\* C24: without custom weights the overall score aggregate returns is the
\* weighted sum of depth.score, quality.accuracy_score,
\* quality.completeness_score, quality.logic_score and readability.score
\* under the row of the content type, truncated to an integer; a content
\* type without a row has the row of unknown.
C24_WeightedSumTruncated ==
    (fn = "aggregate" /\ fnIn.custom_weights = <<>>) =>
        fnOut.overall_score =
            WeightedSum(RowOf(fnIn.content_type), WeighedScores(fnIn.results)) \div 100

\* the sum of the five weights of a row as the floats they are, in the
\* order of the row
FloatRowSum(row) ==
    float_add(float_add(float_add(float_add(
        float_literal(row.depth), float_literal(row.accuracy)),
        float_literal(row.completeness)), float_literal(row.logic)),
        float_literal(row.readability))

\* C25: in every row of the weight table, the five named types and unknown,
\* the weights of depth, accuracy, completeness, logic and readability sum
\* to 1.0: the literals of every row do, and the floats of the row that
\* aggregate works with do within 1e-6.
C25_WeightsSumToOne ==
    /\ DOMAIN WEIGHT_CONFIGS = ContentType
    /\ \A t \in ContentType :
          /\ DOMAIN WEIGHT_CONFIGS[t] = Dimensions
          /\ SumOver(Dimensions, WEIGHT_CONFIGS[t]) = 100
    /\ (fn = "aggregate" /\ fnIn.custom_weights = <<>>) =>
          LET row == weights_of(fnIn.custom_weights, fnIn.content_type)
          IN  /\ float_le(float_of_ratio(999999, 1000000), FloatRowSum(row))
              /\ float_le(FloatRowSum(row), float_of_ratio(1000001, 1000000))

\* aggregate was called for a content type of the table that is not unknown
\* and worked with the row of that type
C25_Witness ==
    /\ fn = "aggregate"
    /\ fnIn.custom_weights = <<>>
    /\ fnIn.content_type = "news"
    /\ weights_of(fnIn.custom_weights, fnIn.content_type).accuracy = 35
    /\ fnOut.dimension_scores.accuracy = 80

\* the grades from the best to the worst
GradeRank(grade) ==
    CASE grade = "A" -> 1 [] grade = "B" -> 2 [] grade = "C" -> 3
      [] grade = "D" -> 4 [] grade = "F" -> 5

\* C26: get_grade gives every integer score one grade, the bands holding
\* their lower edge: A from 90, B for 80..89, C for 70..79, D for 60..69, F
\* below 60; so 90 is A, 89 is B, 60 is D and 59 is F, and a higher score
\* never has a worse grade.
C26_GradeBands ==
    fn = "get_grade" =>
        LET score == fnIn.score
        IN  /\ fnOut \in {"A", "B", "C", "D", "F"}
            /\ fnOut = "A" <=> score >= 90
            /\ fnOut = "B" <=> score \in 80..89
            /\ fnOut = "C" <=> score \in 70..79
            /\ fnOut = "D" <=> score \in 60..69
            /\ fnOut = "F" <=> score < 60
            /\ GradeRank(fnOut) <= GradeRank(ScoreAggregator_get_grade(score - 1))

\* get_grade was called with a score on the lower edge of a band and gave
\* the grade of that band
C26_Witness ==
    /\ fn = "get_grade"
    /\ fnIn.score = 60
    /\ fnOut = "D"

\* the smallest and the largest of the five scores
Smallest(scores) == CHOOSE s \in Range(scores) : \A t \in Range(scores) : s <= t
Largest(scores) == CHOOSE s \in Range(scores) : \A t \in Range(scores) : t <= s
FiveScores(results) ==
    LET w == WeighedScores(results)
    IN  <<w.depth, w.accuracy, w.completeness, w.logic, w.readability>>

\* C30: for every content type of the table and five scores in 0..100, the
\* overall score of aggregate is not below the smallest and not above the
\* largest of the five, so it is in 0..100, and it is s when all five are s.
C30_OverallWithinInputs ==
    (fn = "aggregate" /\ fnIn.custom_weights = <<>>
        /\ fnIn.content_type \in ContentType
        /\ Range(FiveScores(fnIn.results)) \subseteq 0..100) =>
            /\ Smallest(FiveScores(fnIn.results)) <= fnOut.overall_score
            /\ fnOut.overall_score <= Largest(FiveScores(fnIn.results))
            /\ fnOut.overall_score \in 0..100

-----------------------------------------------------------------------------
(* Properties of SearchAgent, continued *)

\* the results the calls cs returned, in the order of the calls and, within
\* a call, of the response
RECURSIVE ReturnedBy(_)
ReturnedBy(cs) ==
    IF cs = <<>> THEN <<>>
    ELSE ReturnedBy(SubSeq(cs, 1, Len(cs) - 1))
         \o SearchAgent_execute_search(Last(cs).query, Last(cs).response)

\* the entries of list that are the first of their source
FirstOfSource(list) ==
    LET first == {i \in DOMAIN list :
                     \A j \in 1..(i - 1) : list[j].source_url # list[i].source_url}
        place(k) == CHOOSE i \in first : Cardinality({j \in first : j < i}) = k - 1
    IN  [k \in 1..Cardinality(first) |-> list[place(k)]]

\* C27: within one call of search() the list gathered has no two results
\* of one source_url; the result kept for a source is the one of the
\* earliest query, and of the earliest place in its response, that returned
\* it; and the results are in the order in which their sources were first
\* seen.
C27_FirstSeenPerSource ==
    (searchPc = "search" /\ search_service = "service") =>
        /\ \A i, j \in DOMAIN round_results :
              i # j => round_results[i].source_url # round_results[j].source_url
        /\ round_results = FirstOfSource(ReturnedBy(CallsOf(round)))

\* a search() at its return: the first query returned source u1, the second
\* u2 and then u1 under another title; u1 is kept as the first query gave it,
\* before u2
C27_Witness ==
    /\ searchPc = "search"
    /\ search_service = "service"
    /\ round = 0
    /\ pending = <<>>
    /\ Len(calls) = 2
    /\ calls[1].response = SvcDict("true", LList(<<Item("u1", "a", "c", "s")>>))
    /\ calls[2].response = SvcDict("true", LList(<<Item("u2", "a", "absent", "absent"),
                                                   Item("u1", "b", "absent", "s")>>))
    /\ Len(round_results) = 2
    /\ round_results[1].source_url = "u1" /\ round_results[1].title = "a"
    /\ round_results[1].query = queries[1]
    /\ round_results[2].source_url = "u2"

\* the queries of the calls made for round r
QueriesOf(r) == [i \in DOMAIN CallsOf(r) |-> CallsOf(r)[i].query]

\* C28: search_multi_round makes at most 3 calls of the search service in
\* round 1, for the first three search_queries of the summary in their
\* order; it makes calls for round 2 only when max_rounds >= 2 and the
\* summary has key terms, then at most 2, one for each of the first two key
\* terms, the query being the topic followed by the term; with
\* max_rounds < 2 or without key terms it makes none for round 2.
C28_RoundsAndQueries ==
    /\ round >= 1 =>
          /\ Len(CallsOf(1)) <= 3
          /\ Len(CallsOf(2)) <= 2
          /\ (max_rounds < 2 \/ summary.key_terms = <<>>) => CallsOf(2) = <<>>
    /\ (searchPc = "done" /\ round >= 1 /\ search_service = "service") =>
          /\ QueriesOf(1) = Take(summary.search_queries, 3)
          /\ QueriesOf(2) =
                IF max_rounds >= 2 /\ summary.key_terms # <<>>
                THEN [i \in 1..(IF Len(summary.key_terms) < 2
                                THEN Len(summary.key_terms) ELSE 2) |->
                         summary.topic \o <<" ">> \o summary.key_terms[i]]
                ELSE <<>>

\* a search_multi_round at its end for a summary of four queries and three
\* key terms: three calls were made in round 1 and two in round 2
C28_Witness ==
    /\ searchPc = "done"
    /\ round = 2
    /\ search_service = "service"
    /\ Len(summary.search_queries) = 4
    /\ Len(summary.key_terms) = 3
    /\ summary.topic # <<>>
    /\ Len(CallsOf(1)) = 3
    /\ Len(CallsOf(2)) = 2

-----------------------------------------------------------------------------
(* The streaming runs of the process: every evaluate-stream request makes a *)
(* Queue, registers it in _evaluation_queues under its task id and starts   *)
(* the thread of run_evaluation, which deletes the entry when it ends.      *)

\* Bounds of the model
MaxRequests == 3    \* evaluate-stream requests made
MaxClock == 2       \* seconds of int(time.time()) followed

\* the tutorials asked for
TutorialIds == {1, 2}

FleetFrame == UNCHANGED <<streamVars, callVars, searchVars, rerunVars, pipeVars>>

\* task_id = f"eval_{tutorial_id}_{int(time.time())}"
task_id_of(tutorial_id, time) == <<"eval", tutorial_id, time>>

\* "_evaluation_queues[task_id] = queue"
registry_set(reg, key, value) ==
    [k \in DOMAIN reg \cup {key} |-> IF k = key THEN value ELSE reg[k]]

\* "if task_id in _evaluation_queues: del _evaluation_queues[task_id]"
registry_del(reg, key) == [k \in DOMAIN reg \ {key} |-> reg[k]]

\* evaluate_tutorial_stream(tutorial_id) up to thread.start(): the Queue of
\* the request is its number
evaluate_tutorial_stream ==
    /\ Len(requests) < MaxRequests
    /\ \E tutorial_id \in TutorialIds :
          LET tid == task_id_of(tutorial_id, clock)
              queue_id == Len(requests) + 1
          IN  /\ registry' = registry_set(registry, tid, queue_id)
              /\ requests' = Append(requests, [tutorial_id |-> tutorial_id,
                                               task_id |-> tid,
                                               queue |-> queue_id,
                                               pc |-> "running"])
    /\ UNCHANGED clock
    /\ FleetFrame

\* the try block of a request's run_evaluation ends, with complete or error
run_evaluation_ends ==
    /\ \E i \in DOMAIN requests :
          /\ requests[i].pc = "running"
          /\ requests' = [requests EXCEPT ![i].pc = "finally"]
    /\ UNCHANGED <<clock, registry>>
    /\ FleetFrame

\* the finally block of a request's run_evaluation
run_evaluation_cleanup ==
    /\ \E i \in DOMAIN requests :
          /\ requests[i].pc = "finally"
          /\ requests' = [requests EXCEPT ![i].pc = "finished"]
          /\ registry' = IF requests[i].task_id \in DOMAIN registry
                         THEN registry_del(registry, requests[i].task_id)
                         ELSE registry
    /\ UNCHANGED clock
    /\ FleetFrame

\* a second passes
clock_tick ==
    /\ clock < MaxClock
    /\ clock' = clock + 1
    /\ UNCHANGED <<requests, registry>>
    /\ FleetFrame

InitFleet == StreamIdle /\ CallIdle /\ SearchIdle /\ RerunIdle /\ PipeIdle /\ FleetIdle

NextFleet ==
    \/ evaluate_tutorial_stream
    \/ run_evaluation_ends
    \/ run_evaluation_cleanup
    \/ clock_tick

SpecFleet == InitFleet /\ [][NextFleet]_vars

\* the request has its own entry in the registry
HasOwnEntry(i) ==
    /\ requests[i].task_id \in DOMAIN registry
    /\ registry[requests[i].task_id] = requests[i].queue

\* C29: at every moment every streaming run that has started and whose
\* worker has not finished has its own entry in the queue registry, and a
\* run that finishes removes no entry but its own, however the runs are
\* interleaved, two runs started for one tutorial within one second
\* included.
C29_OwnRegistryEntry ==
    \A i \in DOMAIN requests : requests[i].pc # "finished" => HasOwnEntry(i)

====
